---- MODULE Spec2Model ----
(***************************************************************************)
(* Model of the review ingestion, storage and aggregation code of the      *)
(* Flex Living reviews dashboard (lib/utils.ts, lib/db.ts, lib/mock-data,  *)
(* app/api/reviews/hostaway/route.ts, app/properties/[id]/page.tsx,        *)
(* app/actions.ts).                                                         *)
(*                                                                         *)
(* Conventions                                                             *)
(*  - a JavaScript string is a sequence of one-character strings;          *)
(*  - a rating is a natural number of TENTHS (95 is 9.5); JavaScript null  *)
(*    and undefined are the number Null, NaN is the number NaN;            *)
(*  - a call that throws returns a record with threw = TRUE.               *)
(***************************************************************************)
EXTENDS Integers, Sequences, FiniteSets, TLC

VARIABLES
    properties,   \* the Property table: property id -> name
    reviewsTbl,   \* the Review table: review id -> row
    arg,          \* arguments of the operation under call
    ret,          \* its return value (or thrown error)
    pc,           \* "idle" before a call, the callee's name after it
    dashboard     \* the manager dashboard open in a browser, if any

vars == <<properties, reviewsTbl, arg, ret, pc, dashboard>>

\* no dashboard is open
NoDashboard == <<>>

\* the database after the migration: both tables empty
EmptyDb ==
    /\ properties = [id \in {} |-> <<>>]
    /\ reviewsTbl = [id \in {} |-> <<>>]

(***************************************************************************)
(* Bounds of the model.                                                    *)
(***************************************************************************)
MaxNameLen == 4
MaxCats == 3
MaxBatch == 2
MaxReviews == 3

(***************************************************************************)
(* JavaScript values.                                                      *)
(***************************************************************************)
Null == -1
NaN == -2

\* an absent (undefined / null) string field; "" is the empty sequence
Absent == <<"undefined">>

\* JavaScript truthiness of a string-or-absent value: !s
Falsy(s) == s = Absent \/ s = <<>>

(***************************************************************************)
(* Characters.                                                             *)
(***************************************************************************)
SmallLetters == <<"a", "b", "k", "n", "o", "u", "w">>
CapitalLetters == <<"A", "B", "K", "N", "O", "U", "W">>
LowerLetters == {SmallLetters[i] : i \in 1..Len(SmallLetters)}
UpperLetters == {CapitalLetters[i] : i \in 1..Len(CapitalLetters)}
Digits == {"1", "2"}
Whitespace == {" "}
Punctuation == {"-", "!"}

\* the characters raw listing names are drawn from
NameChars == {"a", "A", "1", " ", "-", "!"}

SeqsUpTo(S, n) == UNION {[1..k -> S] : k \in 0..n}

ListingNames == SeqsUpTo(NameChars, MaxNameLen) \cup {Absent}

\* String.prototype.toLowerCase, one character
ToLowerChar(c) ==
    IF \E i \in 1..Len(CapitalLetters) : CapitalLetters[i] = c
    THEN SmallLetters[CHOOSE i \in 1..Len(CapitalLetters) : CapitalLetters[i] = c]
    ELSE c

toLowerCase(s) == [i \in 1..Len(s) |-> ToLowerChar(s[i])]

RECURSIVE DropWhileIn(_, _)
DropWhileIn(s, S) ==
    IF s # <<>> /\ Head(s) \in S THEN DropWhileIn(Tail(s), S) ELSE s

Reverse(s) == [i \in 1..Len(s) |-> s[Len(s) + 1 - i]]

\* strip the characters of S from both ends
StripBoth(s, S) == Reverse(DropWhileIn(Reverse(DropWhileIn(s, S)), S))

\* String.prototype.trim
trim(s) == StripBoth(s, Whitespace)

\* the character class [a-z0-9]
IsAlnum(c) == c \in LowerLetters \cup Digits

NonAlnum == (UpperLetters \cup Whitespace \cup Punctuation)

\* .replace(/[^a-z0-9]+/g, '-') : every maximal run becomes one hyphen
RECURSIVE ReplaceRuns(_)
ReplaceRuns(s) ==
    IF s = <<>> THEN <<>>
    ELSE IF IsAlnum(Head(s)) THEN <<Head(s)>> \o ReplaceRuns(Tail(s))
    ELSE <<"-">> \o ReplaceRuns(DropWhileIn(Tail(s), NonAlnum))

\* a slip that strips the leading hyphens only: .replace(/^-+/g, '')
StripHyphens_LeadingOnly(s) == DropWhileIn(s, {"-"})

\* .replace(/^-+|-+$/g, '')
StripHyphens(s) == StripBoth(s, {"-"})

Threw(msg) == [threw |-> TRUE, error |-> msg]
Returned(v) == [threw |-> FALSE, value |-> v]

\* lib/utils.ts mapListingToPropertyId
mapListingToPropertyId(listingName) ==
    IF Falsy(listingName)
    THEN Threw("Listing name is required")
    ELSE Returned(StripHyphens(ReplaceRuns(trim(toLowerCase(listingName)))))

(***************************************************************************)
(* Numbers.                                                                *)
(***************************************************************************)
\* JavaScript: value !== null && value !== undefined && !isNaN(value)
IsValidNumber(v) == v # Null /\ v # NaN

\* a slip that truncates: Math.floor(num / den)
MathRound_Floor(num, den) == num \div den

\* Math.round(num / den) for den > 0: floor(num / den + 1/2)
MathRound(num, den) == (2 * num + den) \div (2 * den)

RECURSIVE SumSeq(_)
SumSeq(s) == IF s = <<>> THEN 0 ELSE Head(s) + SumSeq(Tail(s))

\* Number.prototype.toString of a natural number, as a string of digits
DigitChars == <<"0", "1", "2", "3", "4", "5", "6", "7", "8", "9">>

RECURSIVE NumberToString(_)
NumberToString(n) ==
    IF n < 10 THEN <<DigitChars[n + 1]>>
    ELSE NumberToString(n \div 10) \o <<DigitChars[(n % 10) + 1]>>

(***************************************************************************)
(* Raw Hostaway records (types/index.ts HostawayReview).                   *)
(***************************************************************************)
\* an absent reviewCategory field
AbsentCategories == <<[category |-> "undefined", rating |-> Null]>>

\* a slip that answers 0 when no valid rating is left
calculateAverageRating_ZeroForNoData(categories) ==
    IF categories = AbsentCategories \/ Len(categories) = 0 THEN Null
    ELSE LET ratings == [i \in 1..Len(categories) |-> categories[i].rating]
             validRatings == SelectSeq(ratings, IsValidNumber)
         IN  IF Len(validRatings) = 0 THEN 0
             ELSE MathRound(SumSeq(validRatings), Len(validRatings))

\* lib/utils.ts calculateAverageRating; the result is in tenths
calculateAverageRating(categories) ==
    IF categories = AbsentCategories \/ Len(categories) = 0 THEN Null
    ELSE LET ratings == [i \in 1..Len(categories) |-> categories[i].rating]
             validRatings == SelectSeq(ratings, IsValidNumber)
         IN  IF Len(validRatings) = 0 THEN Null
             ELSE MathRound(SumSeq(validRatings), Len(validRatings))

(***************************************************************************)
(* Dates.  A date text is a record: kind "iso" is "2025-08-21T22:45:14",   *)
(* kind "spaced" is "2025-08-21 22:45:14", which is outside the ECMAScript *)
(* date-time format and parsed by the engine's fallback parser, kind       *)
(* "spacedStrict" is a text the fallback parser rejects but that is in the *)
(* ECMAScript format once its space is a "T" ("+002025-08-21 22:45:14"),   *)
(* kind "garbage" is a text no parse accepts, kind "undefined" is an       *)
(* absent field and kind "null" a null one.  A Date is a day number,       *)
(* InvalidDate the Date whose getTime() is NaN.                            *)
(***************************************************************************)
InvalidDate == -1

\* new Date(text); new Date(null) is the epoch
NewDate(text) ==
    IF text.kind \in {"iso", "spaced"} THEN text.day
    ELSE IF text.kind = "null" THEN 0
    ELSE InvalidDate

\* text.replace(' ', 'T')
ReplaceSpaceWithT(text) ==
    IF text.kind \in {"spaced", "spacedStrict"}
    THEN [text EXCEPT !.kind = "iso"] ELSE text

\* a slip that leaves out the second parse
ParseSubmittedAt_OneParse(text, now) ==
    LET first == NewDate(text)
    IN  IF first # InvalidDate THEN first ELSE now

\* lib/utils.ts normalizeHostawayReview, the date block (lines 86-106)
ParseSubmittedAt(text, now) ==
    LET first == NewDate(text)
    IN  IF first # InvalidDate THEN first
        ELSE IF text.kind = "undefined" THEN now     \* .replace throws: catch
        ELSE LET second == NewDate(ReplaceSpaceWithT(text))
             IN  IF second # InvalidDate THEN second ELSE now

Anonymous == <<"A", "n", "o", "n", "y", "m", "o", "u", "s">>

\* value || fallback, for strings
OrElse(s, fallback) == IF Falsy(s) THEN fallback ELSE s

\* a slip that tests the explicit rating for truthiness: if (!finalRating)
ResolveRating_Truthy(raw) ==
    IF raw.rating = Null \/ raw.rating = 0 \/ raw.rating = NaN
    THEN calculateAverageRating(raw.reviewCategory)
    ELSE raw.rating

\* lib/utils.ts normalizeHostawayReview, the rating block (lines 79-84)
ResolveRating(raw) ==
    IF raw.rating = Null
    THEN calculateAverageRating(raw.reviewCategory)
    ELSE raw.rating

\* lib/utils.ts normalizeHostawayReview
normalizeHostawayReview(raw, now) ==
    LET finalRating == ResolveRating(raw)
        submittedDate == ParseSubmittedAt(raw.submittedAt, now)
        mapped == mapListingToPropertyId(raw.listingName)
    IN  IF raw.id = Null THEN Threw("TypeError")      \* raw.id.toString()
        ELSE IF mapped.threw THEN mapped
        ELSE Returned([
                id |-> NumberToString(raw.id),
                propertyId |-> mapped.value,
                guestName |-> OrElse(raw.guestName, Anonymous),
                rating |-> finalRating,
                publicReview |-> OrElse(raw.publicReview, <<>>),
                channel |-> "hostaway",
                reviewType |-> raw.type,
                status |-> raw.status,
                displayOnWebsite |-> FALSE,
                categories |-> IF raw.reviewCategory = AbsentCategories
                               THEN <<>> ELSE raw.reviewCategory,
                submittedAt |-> submittedDate])

(***************************************************************************)
(* Specification of the identifier mapper called on every listing name.    *)
(***************************************************************************)
MapperInit ==
    /\ EmptyDb
    /\ arg \in ListingNames
    /\ ret = Returned(<<>>)
    /\ pc = "idle"
    /\ dashboard = NoDashboard

CallMapper ==
    /\ pc = "idle"
    /\ ret' = mapListingToPropertyId(arg)
    /\ pc' = "mapListingToPropertyId"
    /\ UNCHANGED dashboard
    /\ UNCHANGED <<arg, properties, reviewsTbl>>

MapperNext == CallMapper

SpecMapper == MapperInit /\ [][MapperNext]_vars

\* a listing name none of whose characters survives the stripping
StripsToNothing(s) ==
    s = Absent \/ \A i \in 1..Len(s) : ~IsAlnum(ToLowerChar(s[i]))

\* C4: mapListingToPropertyId raises an error for every listing name that
\* is empty or strips to nothing, and returns the empty string for no input.
C4_MapperRaisesOnEmptyName ==
    pc = "mapListingToPropertyId" =>
        /\ StripsToNothing(arg) => ret.threw
        /\ ~ret.threw => ret.value # <<>>

(***************************************************************************)
(* The raw records the models draw their inputs from.                      *)
(***************************************************************************)
CategoryNames == {"cleanliness", "communication"}
CategoryRatingValues == {0, 90, 100, Null, NaN}
\* the normalizer reads the ratings of the entries only
CategoryEntries == [category : {"cleanliness"}, rating : CategoryRatingValues]
CategoryLists == SeqsUpTo(CategoryEntries, MaxCats)

DateTexts(days) ==
    [kind : {"iso", "spaced", "spacedStrict"}, day : days]
        \cup {[kind |-> "garbage", day |-> 0], [kind |-> "undefined", day |-> 0],
              [kind |-> "null", day |-> 0]}

RawReviewSet(ids, types, names, ratings, catLists, dates, guests, texts) ==
    [id : ids, type : types, status : {"published"},
     rating : ratings, publicReview : texts, reviewCategory : catLists,
     submittedAt : dates, guestName : guests, listingName : names]

(***************************************************************************)
(* Specification of the normalizer called on every raw record.             *)
(***************************************************************************)
NormNames == {Absent, <<>>, <<"-">>, <<"a", " ", "B">>}

NormRawReviews(catLists) ==
    RawReviewSet({7, 12}, {"host-to-guest", "guest-to-host"}, NormNames, {Null, 0, 85},
                 catLists \cup {AbsentCategories}, DateTexts({10}),
                 {Absent, <<>>, <<"a">>}, {<<"o", "k">>})

NormInit ==
    /\ EmptyDb
    /\ arg \in [raw : NormRawReviews(CategoryLists), now : {50}]
    /\ ret = Returned(<<>>)
    /\ pc = "idle"
    /\ dashboard = NoDashboard

CallNormalizer ==
    /\ pc = "idle"
    /\ ret' = normalizeHostawayReview(arg.raw, arg.now)
    /\ pc' = "normalizeHostawayReview"
    /\ UNCHANGED dashboard
    /\ UNCHANGED <<arg, properties, reviewsTbl>>

NormNext == CallNormalizer

SpecNorm == NormInit /\ [][NormNext]_vars

\* some entry of the list carries a valid rating
HasValidCategoryRating(categories) ==
    /\ categories # AbsentCategories
    /\ \E i \in 1..Len(categories) : IsValidNumber(categories[i].rating)

\* C7: the normalized rating is the explicit raw rating whenever that is
\* non-null (an explicit 0 included, categories or not), else the category
\* average; it is null exactly when there is neither an explicit rating nor
\* a valid category rating, and 0 is never a stand-in for a missing rating.
C7_ExplicitRatingWins ==
    (pc = "normalizeHostawayReview" /\ ~ret.threw) =>
        LET raw == arg.raw
            rating == ret.value.rating
        IN  /\ raw.rating # Null => rating = raw.rating
            /\ raw.rating = Null =>
                   rating = calculateAverageRating(raw.reviewCategory)
            /\ rating = Null <=>
                   (raw.rating = Null /\ ~HasValidCategoryRating(raw.reviewCategory))
            /\ rating = 0 =>
                   raw.rating = 0 \/ HasValidCategoryRating(raw.reviewCategory)

\* an explicit 0 kept although the categories average to 9.5
C7_Witness ==
    /\ pc = "normalizeHostawayReview"
    /\ ~ret.threw
    /\ arg.raw.rating = 0
    /\ calculateAverageRating(arg.raw.reviewCategory) = 95
    /\ ret.value.rating = 0

(***************************************************************************)
(* GET /api/reviews/hostaway (app/api/reviews/hostaway/route.ts).          *)
(* The environment of one request: whether the credentials are set, what   *)
(* the fetch did, and the records of a well-formed answer.                 *)
(***************************************************************************)
\* lib/mock-reviews.json: the bundled sample dataset
MockReviews ==
    << [id |-> 7453, type |-> "host-to-guest", status |-> "published",
        rating |-> Null, publicReview |-> <<"o", "k">>,
        reviewCategory |-> << [category |-> "cleanliness", rating |-> 100],
                              [category |-> "communication", rating |-> 90] >>,
        submittedAt |-> [kind |-> "spaced", day |-> 10],
        guestName |-> <<"a">>, listingName |-> <<"2", "B", " ", "a">>],
       [id |-> 7454, type |-> "guest-to-host", status |-> "published",
        rating |-> Null, publicReview |-> <<"o", "k">>,
        reviewCategory |-> <<>>,
        submittedAt |-> [kind |-> "spaced", day |-> 20],
        guestName |-> <<"b">>, listingName |-> <<"1", "B", " ", "b">>] >>

\* route.ts fetchHostawayReviews
fetchHostawayReviews(env) ==
    IF ~env.credentials THEN <<>>
    ELSE IF env.fetch = "threw" THEN <<>>
    ELSE IF env.fetch = "notOk" THEN <<>>
    ELSE IF env.fetch = "ok" THEN env.result
    ELSE <<>>

\* route.ts loadMockReviews
loadMockReviews == MockReviews

Unknown == <<"u", "n", "k", "n", "o", "w", "n">>

\* a slip that shows the placeholder on the website
NormalizeOrPlaceholder_Shown(rawReview, now) ==
    LET normalized == normalizeHostawayReview(rawReview, now)
    IN  IF ~normalized.threw THEN normalized
        ELSE IF rawReview.id = Null THEN Threw("TypeError")
        ELSE Returned([
                id |-> NumberToString(rawReview.id),
                propertyId |-> Unknown,
                guestName |-> OrElse(rawReview.guestName, Anonymous),
                rating |-> rawReview.rating,
                publicReview |-> OrElse(rawReview.publicReview, <<>>),
                channel |-> "hostaway",
                reviewType |-> rawReview.type,
                status |-> rawReview.status,
                displayOnWebsite |-> TRUE,
                categories |-> IF rawReview.reviewCategory = AbsentCategories
                               THEN <<>> ELSE rawReview.reviewCategory,
                submittedAt |-> now])

\* route.ts GET, the callback of hostawayReviews.map (lines 121-141)
NormalizeOrPlaceholder(rawReview, now) ==
    LET normalized == normalizeHostawayReview(rawReview, now)
    IN  IF ~normalized.threw THEN normalized
        ELSE IF rawReview.id = Null THEN Threw("TypeError")  \* id.toString()
        ELSE Returned([
                id |-> NumberToString(rawReview.id),
                propertyId |-> Unknown,
                guestName |-> OrElse(rawReview.guestName, Anonymous),
                rating |-> rawReview.rating,
                publicReview |-> OrElse(rawReview.publicReview, <<>>),
                channel |-> "hostaway",
                reviewType |-> rawReview.type,
                status |-> rawReview.status,
                displayOnWebsite |-> FALSE,
                categories |-> IF rawReview.reviewCategory = AbsentCategories
                               THEN <<>> ELSE rawReview.reviewCategory,
                submittedAt |-> now])

\* Array.prototype.map with a callback that may throw
MapThrowing(s, F(_)) ==
    IF \E i \in 1..Len(s) : F(s[i]).threw
    THEN Threw("TypeError")
    ELSE Returned([i \in 1..Len(s) |-> F(s[i]).value])

JsonResponse(httpStatus, bodyStatus, result) ==
    [status |-> httpStatus, body |-> [status |-> bodyStatus, result |-> result]]

\* a slip that reports the fatal error instead of serving the mock data
FatalFallback_Error(now) == JsonResponse(500, "error", <<>>)

\* route.ts GET, the outer catch block (lines 159-196)
FatalFallback(now) ==
    LET Bare(raw) == normalizeHostawayReview(raw, now)
        normalizedMockReviews == MapThrowing(loadMockReviews, Bare)
    IN  IF ~normalizedMockReviews.threw
        THEN JsonResponse(200, "success", normalizedMockReviews.value)
        ELSE JsonResponse(500, "error", <<>>)

\* a slip that loads the mock data whatever the fetch returned
ChooseSource_AlwaysMock(fetched) == loadMockReviews

\* route.ts GET, step 2 (lines 114-118)
ChooseSource(fetched) ==
    IF Len(fetched) = 0 THEN loadMockReviews ELSE fetched

\* route.ts GET
GET(env, now) ==
    LET hostawayReviews == ChooseSource(fetchHostawayReviews(env))
        PerRecord(raw) == NormalizeOrPlaceholder(raw, now)
        normalizedReviews == MapThrowing(hostawayReviews, PerRecord)
    IN  IF ~normalizedReviews.threw
        THEN JsonResponse(200, "success", normalizedReviews.value)
        ELSE FatalFallback(now)

(***************************************************************************)
(* Specification of the GET handler under every environment.               *)
(***************************************************************************)
GetNames == {Absent, <<>>, <<"-">>, <<"a", " ", "B">>}

GetRawReviews ==
    RawReviewSet({1, 2, Null}, {"guest-to-host"}, GetNames, {Null, 85},
                 {<<>>, <<[category |-> "cleanliness", rating |-> 100]>>,
                  <<[category |-> "cleanliness", rating |-> Null]>>},
                 {[kind |-> "iso", day |-> 10]}, {<<"a">>}, {<<"o", "k">>})

\* without credentials no request is made; a request that fails, or whose
\* answer has an unexpected shape, carries no records
GetEnvs(maxBatch) ==
    [credentials : {TRUE}, fetch : {"ok"},
     result : SeqsUpTo(GetRawReviews, maxBatch)]
    \cup [credentials : {TRUE}, fetch : {"threw", "notOk", "badShape"},
          result : {<<>>}]
    \cup [credentials : {FALSE}, fetch : {"none"}, result : {<<>>}]

GetInit ==
    /\ EmptyDb
    /\ arg \in [env : GetEnvs(MaxBatch), now : {50}]
    /\ ret = JsonResponse(0, "none", <<>>)
    /\ pc = "idle"
    /\ dashboard = NoDashboard

CallGET ==
    /\ pc = "idle"
    /\ ret' = GET(arg.env, arg.now)
    /\ pc' = "GET"
    /\ UNCHANGED dashboard
    /\ UNCHANGED <<arg, properties, reviewsTbl>>

GetNext == CallGET

\* the same handler when every fetched record has the declared shape
\* (types/index.ts HostawayReview: id is a number)
GetTypedInit ==
    /\ EmptyDb
    /\ arg \in [env : {e \in GetEnvs(MaxBatch) : ~\E i \in 1..Len(e.result) :
                                           e.result[i].id = Null},
                 now : {50}]
    /\ ret = JsonResponse(0, "none", <<>>)
    /\ pc = "idle"
    /\ dashboard = NoDashboard

SpecGetTyped == GetTypedInit /\ [][GetNext]_vars

SpecGet == GetInit /\ [][GetNext]_vars

\* the records the Hostaway fetch produced, read off the environment
FetchedRecords(env) ==
    IF env.credentials /\ env.fetch = "ok" THEN env.result ELSE <<>>

\* the batch handed to the normalization step
Batch(env) == IF FetchedRecords(env) = <<>> THEN MockReviews ELSE FetchedRecords(env)

MockIds == {NumberToString(MockReviews[i].id) : i \in 1..Len(MockReviews)}

\* the response carries the mock dataset
ServesMock(response) ==
    /\ Len(response.body.result) = Len(MockReviews)
    /\ \A i \in 1..Len(MockReviews) :
           response.body.result[i].id = NumberToString(MockReviews[i].id)

\* C3: the result has one review per record of the batch, in order; a record
\* whose listing name is missing or invalid becomes a placeholder with
\* propertyId "unknown", every other record is normalized as if alone.
C3_BatchNeverAborts ==
    pc = "GET" =>
        LET batch == Batch(arg.env)
            result == ret.body.result
        IN  /\ Len(result) = Len(batch)
            /\ \A i \in 1..Len(batch) :
                   IF StripsToNothing(batch[i].listingName)
                   THEN result[i].propertyId = Unknown
                   ELSE LET alone == normalizeHostawayReview(batch[i], arg.now)
                        IN  ~alone.threw /\ result[i] = alone.value

LacksId(records) == \E i \in 1..Len(records) : records[i].id = Null

C8_NullRatingImpliesNoCategories ==
    pc = "GET" =>
        \A i \in 1..Len(ret.body.result) :
            ret.body.result[i].rating = Null =>
                Len(ret.body.result[i].categories) = 0

\* the characters of /^[a-z0-9-]+$/
IsIdChar(c) == c \in LowerLetters \cup Digits \cup {"-"}

\* C9: every propertyId of the result matches ^[a-z0-9-]+$.
C9_PropertyIdWellFormed ==
    pc = "GET" =>
        \A i \in 1..Len(ret.body.result) :
            LET id == ret.body.result[i].propertyId
            IN  Len(id) > 0 /\ \A k \in 1..Len(id) : IsIdChar(id[k])

(***************************************************************************)
(* The database (lib/db.ts).  A Review row keeps the fields of the Review   *)
(* type, its categories as JSON text.                                       *)
(***************************************************************************)
\* JSON.stringify(review.categories): NaN is written as null
JsonStringify(categories) ==
    [json |-> [i \in 1..Len(categories) |->
                  [categories[i] EXCEPT !.rating = IF @ = NaN THEN Null ELSE @]]]

\* JSON.parse(dbReview.categories)
JsonParse(text) == text.json

\* word.charAt(0).toUpperCase()
ToUpperChar(c) ==
    IF \E i \in 1..Len(SmallLetters) : SmallLetters[i] = c
    THEN CapitalLetters[CHOOSE i \in 1..Len(SmallLetters) : SmallLetters[i] = c]
    ELSE c

\* lib/db.ts getPropertyNameFromId: split on '-', capitalise, join with ' '
getPropertyNameFromId(propertyId) ==
    [i \in 1..Len(propertyId) |->
        IF propertyId[i] = "-" THEN " "
        ELSE IF i = 1 \/ propertyId[i - 1] = "-" THEN ToUpperChar(propertyId[i])
        ELSE propertyId[i]]

UnknownProperty ==
    <<"U", "n", "k", "n", "o", "w", "n", " ",
      "P", "r", "o", "p", "e", "r", "t", "y">>

\* the keys of the Map reviewsByProperty, in insertion order
RECURSIVE PropertyOrder(_, _)
PropertyOrder(reviews, seen) ==
    IF reviews = <<>> THEN <<>>
    ELSE IF Head(reviews).propertyId \in seen
    THEN PropertyOrder(Tail(reviews), seen)
    ELSE <<Head(reviews).propertyId>>
             \o PropertyOrder(Tail(reviews), seen \cup {Head(reviews).propertyId})

\* the value of the Map reviewsByProperty at one key
ReviewsOf(reviews, propertyId) ==
    SelectSeq(reviews, LAMBDA r : r.propertyId = propertyId)

\* prisma.property.upsert (lib/db.ts lines 35-47)
UpsertProperty(props, propertyId, propertyReviews) ==
    LET propertyName ==
            IF ~Falsy(propertyReviews[1].guestName)
            THEN getPropertyNameFromId(propertyId)
            ELSE UnknownProperty
    IN  IF propertyId \in DOMAIN props
        THEN [props EXCEPT ![propertyId] = propertyName]
        ELSE props @@ (propertyId :> propertyName)

\* prisma.review.upsert (lib/db.ts lines 51-77)
UpsertReview(tbl, review) ==
    IF review.id \in DOMAIN tbl
    THEN [tbl EXCEPT ![review.id] =
              [@ EXCEPT !.guestName = review.guestName,
                        !.rating = review.rating,
                        !.publicReview = review.publicReview,
                        !.channel = review.channel,
                        !.reviewType = review.reviewType,
                        !.status = review.status,
                        !.displayOnWebsite = review.displayOnWebsite,
                        !.categories = JsonStringify(review.categories),
                        !.submittedAt = review.submittedAt]]
    ELSE tbl @@ (review.id :>
              [id |-> review.id,
               propertyId |-> review.propertyId,
               guestName |-> review.guestName,
               rating |-> review.rating,
               publicReview |-> review.publicReview,
               channel |-> review.channel,
               reviewType |-> review.reviewType,
               status |-> review.status,
               displayOnWebsite |-> review.displayOnWebsite,
               categories |-> JsonStringify(review.categories),
               submittedAt |-> review.submittedAt])

RECURSIVE UpsertReviews(_, _)
UpsertReviews(tbl, reviews) ==
    IF reviews = <<>> THEN tbl
    ELSE UpsertReviews(UpsertReview(tbl, Head(reviews)), Tail(reviews))

\* lib/db.ts saveReviewsToDb, the loop over the properties (lines 33-79)
RECURSIVE SaveGroups(_, _, _)
SaveGroups(db, reviews, order) ==
    IF order = <<>> THEN db
    ELSE LET propertyId == Head(order)
             propertyReviews == ReviewsOf(reviews, propertyId)
         IN  SaveGroups(
                 [props |-> UpsertProperty(db.props, propertyId, propertyReviews),
                  tbl |-> UpsertReviews(db.tbl, propertyReviews)],
                 reviews, Tail(order))

\* lib/db.ts saveReviewsToDb
saveReviewsToDb(db, reviews) ==
    SaveGroups(db, reviews, PropertyOrder(reviews, {}))

\* the Review object built from a row (lib/db.ts lines 101-115)
RowToReview(dbReview) ==
    [dbReview EXCEPT !.categories = JsonParse(dbReview.categories)]

\* the sequences of the elements of S, each once, newest first
\* (orderBy: { submittedAt: 'desc' }; rows of equal date come in any order)
NewestFirst(S) ==
    {order \in [1..Cardinality(S) -> S] :
        /\ \A i, j \in 1..Cardinality(S) : i # j => order[i] # order[j]
        /\ \A i, j \in 1..Cardinality(S) :
               i < j => order[i].submittedAt >= order[j].submittedAt}

\* lib/db.ts getReviewsByProperty: the lists prisma may return
getReviewsByProperty(tbl, propertyId) ==
    {[i \in 1..Len(order) |-> RowToReview(order[i])] :
        order \in NewestFirst({tbl[id] : id \in {k \in DOMAIN tbl :
                                                   tbl[k].propertyId = propertyId}})}

\* a slip that leaves out the where clause: review.updateMany
updateReviewDisplayStatus_Many(tbl, reviewId, display) ==
    IF reviewId \in DOMAIN tbl
    THEN Returned([id \in DOMAIN tbl |->
                      [tbl[id] EXCEPT !.displayOnWebsite = display]])
    ELSE Threw("Record to update not found")

\* lib/db.ts updateReviewDisplayStatus
updateReviewDisplayStatus(tbl, reviewId, display) ==
    IF reviewId \in DOMAIN tbl
    THEN Returned([tbl EXCEPT ![reviewId].displayOnWebsite = display])
    ELSE Threw("Record to update not found")

(***************************************************************************)
(* The public property page (app/properties/[id]/page.tsx).                 *)
(***************************************************************************)
\* JavaScript total += rating, null counting as 0
JsAdd(total, rating) == IF rating = Null THEN total ELSE total + rating

\* the keys of categoryRatings in insertion order
RECURSIVE KeyOrder(_, _)
KeyOrder(entries, seen) ==
    IF entries = <<>> THEN <<>>
    ELSE IF Head(entries).category \in seen THEN KeyOrder(Tail(entries), seen)
    ELSE <<Head(entries).category>>
             \o KeyOrder(Tail(entries), seen \cup {Head(entries).category})

\* all category entries of a list of reviews, in order
RECURSIVE AllEntries(_)
AllEntries(reviews) ==
    IF reviews = <<>> THEN <<>>
    ELSE Head(reviews).categories \o AllEntries(Tail(reviews))

RECURSIVE TotalOf(_)
TotalOf(entries) ==
    IF entries = <<>> THEN 0 ELSE JsAdd(TotalOf(Tail(entries)), Head(entries).rating)

\* page.tsx lines 43-55: category -> {total, count}
PageCategoryRatings(approvedReviews) ==
    LET entries == AllEntries(approvedReviews)
    IN  [c \in {entries[i].category : i \in 1..Len(entries)} |->
            LET mine == SelectSeq(entries, LAMBDA e : e.category = c)
            IN  [total |-> TotalOf(mine), count |-> Len(mine)]]

\* a.average > b.average, the averages being total / count
HigherAverage(a, b) == a.total * b.count > b.total * a.count

\* Array.prototype.sort((a, b) => b.average - a.average): stable insertion
RECURSIVE InsertByAverage(_, _)
InsertByAverage(sorted, item) ==
    IF sorted = <<>> THEN <<item>>
    ELSE IF HigherAverage(item, Head(sorted)) THEN <<item>> \o sorted
    ELSE <<Head(sorted)>> \o InsertByAverage(Tail(sorted), item)

RECURSIVE SortByAverage(_)
SortByAverage(items) ==
    IF items = <<>> THEN <<>>
    ELSE InsertByAverage(SortByAverage(SubSeq(items, 1, Len(items) - 1)),
                         items[Len(items)])

\* page.tsx lines 57-63
TopCategories(approvedReviews) ==
    LET ratings == PageCategoryRatings(approvedReviews)
        keys == KeyOrder(AllEntries(approvedReviews), {})
        items == [i \in 1..Len(keys) |->
                     [category |-> keys[i],
                      total |-> ratings[keys[i]].total,
                      count |-> ratings[keys[i]].count]]
        sorted == SortByAverage(items)
    IN  SubSeq(sorted, 1, IF Len(sorted) < 3 THEN Len(sorted) ELSE 3)

\* a slip that forgets the filter on displayOnWebsite
Approved_All(allReviews) == allReviews

\* page.tsx line 29
Approved(allReviews) == SelectSeq(allReviews, LAMBDA r : r.displayOnWebsite)

\* page.tsx PropertyPage: what the page renders from the fetched reviews;
\* the average rating is the fraction sum / count, absent when count = 0
PropertyPage(id, allReviews) ==
    LET approvedReviews == Approved(allReviews)
        reviewsWithRating == SelectSeq(approvedReviews, LAMBDA r : r.rating # Null)
        ratings == [i \in 1..Len(reviewsWithRating) |-> reviewsWithRating[i].rating]
    IN  [id |-> id,
         propertyName |-> getPropertyNameFromId(id),
         approvedReviews |-> approvedReviews,
         averageRating |-> [sum |-> SumSeq(ratings), count |-> Len(ratings)],
         topCategories |-> TopCategories(approvedReviews)]

(***************************************************************************)
(* Specification of the store: saves, approval toggles and page renders.   *)
(***************************************************************************)
StoreNames == {<<"a">>, <<"B">>}

StoreCategoryLists ==
    { <<>>,
      <<[category |-> "cleanliness", rating |-> 80],
        [category |-> "communication", rating |-> 100]>> }

\* a record carries either an explicit rating or category ratings
StoreRawReviews ==
    {r \in RawReviewSet({1, 2}, {"guest-to-host"}, StoreNames, {Null, 70},
                        StoreCategoryLists, {[kind |-> "iso", day |-> 10]},
                        {<<"a">>}, {<<"o", "k">>}) :
        r.rating = Null <=> r.reviewCategory # <<>>}

StoreReviewIds == {NumberToString(n) : n \in {1, 2, 3}}

StorePropertyIds == {<<"a">>, <<"b">>, <<"k">>}

Init ==
    /\ EmptyDb
    /\ arg = <<>>
    /\ ret = Returned(<<>>)
    /\ pc = "idle"
    /\ dashboard = NoDashboard

\* normalizeHostawayReview on each raw record, then saveReviewsToDb
SaveReviewsToDb ==
    \E raws \in SeqsUpTo(StoreRawReviews, MaxBatch) :
        LET reviews == [i \in 1..Len(raws) |->
                           normalizeHostawayReview(raws[i], 50).value]
            db == saveReviewsToDb([props |-> properties, tbl |-> reviewsTbl],
                                  reviews)
        IN  /\ properties' = db.props
            /\ reviewsTbl' = db.tbl
            /\ ret' = Returned(<<>>)
            /\ pc' = "saveReviewsToDb"
            /\ UNCHANGED dashboard
            /\ UNCHANGED arg

\* app/actions.ts toggleReviewDisplay
ToggleReviewDisplay ==
    \E reviewId \in StoreReviewIds, display \in BOOLEAN :
        LET updated == updateReviewDisplayStatus(reviewsTbl, reviewId, display)
        IN  /\ reviewsTbl' = IF updated.threw THEN reviewsTbl ELSE updated.value
            /\ ret' = [success |-> ~updated.threw]
            /\ pc' = "toggleReviewDisplay"
            /\ UNCHANGED dashboard
            /\ UNCHANGED <<arg, properties>>

\* app/properties/[id]/page.tsx PropertyPage
RenderPropertyPage ==
    \E id \in StorePropertyIds :
        \E allReviews \in getReviewsByProperty(reviewsTbl, id) :
            /\ ret' = PropertyPage(id, allReviews)
            /\ pc' = "PropertyPage"
            /\ UNCHANGED dashboard
            /\ UNCHANGED <<arg, properties, reviewsTbl>>

Next == SaveReviewsToDb \/ ToggleReviewDisplay \/ RenderPropertyPage

Spec == Init /\ [][Next]_vars

\* C1: re-ingesting records (normalize, then saveReviewsToDb) leaves the
\* stored displayOnWebsite of every review already in the store unchanged.
C1_SavePreservesDisplayFlag ==
    [][pc' = "saveReviewsToDb" =>
          \A id \in DOMAIN reviewsTbl :
              reviewsTbl'[id].displayOnWebsite = reviewsTbl[id].displayOnWebsite]_vars

\* the stored reviews the page of property id must show
ShownIds(id) ==
    {k \in DOMAIN reviewsTbl :
        reviewsTbl[k].propertyId = id /\ reviewsTbl[k].displayOnWebsite}

\* the category entries <<review id, index>> of the stored reviews the page
\* must show
ShownEntries(id) ==
    {e \in ShownIds(id) \X (1..MaxCats) :
        e[2] <= Len(reviewsTbl[e[1]].categories.json)}

\* the sum of the stored ratings of the reviews in S
RECURSIVE SumStoredRatings(_)
SumStoredRatings(S) ==
    IF S = {} THEN 0
    ELSE LET k == CHOOSE y \in S : TRUE
         IN  reviewsTbl[k].rating + SumStoredRatings(S \ {k})

\* the sum of the stored category ratings of the entries in S
RECURSIVE SumStoredEntries(_)
SumStoredEntries(S) ==
    IF S = {} THEN 0
    ELSE LET e == CHOOSE y \in S : TRUE
         IN  reviewsTbl[e[1]].categories.json[e[2]].rating
                 + SumStoredEntries(S \ {e})

\* C2: the page of property P renders exactly the stored reviews of P whose
\* displayOnWebsite is true at render time, and only their data enters the
\* average rating and the category breakdown.
C2_PageShowsExactlyApproved ==
    pc = "PropertyPage" =>
        LET shown == ShownIds(ret.id)
            rated == {k \in shown : reviewsTbl[k].rating # Null}
            rendered == ret.approvedReviews
        IN  /\ {rendered[i].id : i \in 1..Len(rendered)} = shown
            /\ Len(rendered) = Cardinality(shown)
            /\ \A i \in 1..Len(rendered) :
                   /\ rendered[i].displayOnWebsite
                   /\ rendered[i].propertyId = ret.id
                   /\ rendered[i].rating = reviewsTbl[rendered[i].id].rating
            /\ ret.averageRating.count = Cardinality(rated)
            /\ ret.averageRating.sum = SumStoredRatings(rated)
            /\ \A c \in CategoryNames :
                   LET mine == {e \in ShownEntries(ret.id) :
                                   reviewsTbl[e[1]].categories.json[e[2]].category = c}
                       top == SelectSeq(ret.topCategories, LAMBDA t : t.category = c)
                   IN  /\ Len(top) = IF mine = {} THEN 0 ELSE 1
                       /\ mine # {} =>
                              /\ top[1].count = Cardinality(mine)
                              /\ top[1].total = SumStoredEntries(mine)

\* a page rendered for a property that holds one approved rated review and
\* one review that is not approved
C2_Witness ==
    /\ pc = "PropertyPage"
    /\ Len(ret.approvedReviews) = 1
    /\ Cardinality({k \in DOMAIN reviewsTbl : reviewsTbl[k].propertyId = ret.id}) = 2
    /\ ret.averageRating.count = 1
    /\ Len(ret.topCategories) = 0

(***************************************************************************)
(* The property aggregator: lib/db.ts getPropertiesWithReviews and         *)
(* lib/mock-data calculatePropertyPerformance.  Times are whole days.      *)
(***************************************************************************)
Infinity == -3

\* JavaScript a + b on numbers: NaN absorbs, null counts as 0
JsPlus(a, b) ==
    IF a = NaN \/ b = NaN THEN NaN
    ELSE IF b = Null THEN a
    ELSE a + b

\* Math.round((sum / count) * 10) / 10, in tenths
RoundedMean(sum, count) == IF sum = NaN THEN NaN ELSE MathRound(sum, count)

\* the body of review.categories.forEach (db.ts lines 230-237, 462-469):
\* if (!categoryRatings[c]) { sum = 0; count = 0 }  sum += rating; count++
\* the test is true for an unseen category and for a running sum of 0 or NaN
Accumulate(acc, cat) ==
    LET fresh == \/ cat.category \notin DOMAIN acc
                 \/ acc[cat.category].sum = 0
                 \/ acc[cat.category].sum = NaN
        base == IF fresh THEN [sum |-> 0, count |-> 0] ELSE acc[cat.category]
        next == [sum |-> JsPlus(base.sum, cat.rating), count |-> base.count + 1]
    IN  [c \in DOMAIN acc \cup {cat.category} |->
            IF c = cat.category THEN next ELSE acc[c]]

RECURSIVE AccumulateAll(_, _)
AccumulateAll(acc, entries) ==
    IF entries = <<>> THEN acc
    ELSE AccumulateAll(Accumulate(acc, Head(entries)), Tail(entries))

\* db.ts lines 224-245 and 456-477: category -> rounded mean
CategoryRatings(reviews) ==
    LET acc == AccumulateAll([c \in {} |-> [sum |-> 0, count |-> 0]],
                             AllEntries(reviews))
    IN  [c \in DOMAIN acc |-> RoundedMean(acc[c].sum, acc[c].count)]

RatingsOf(reviews) == [i \in 1..Len(reviews) |-> reviews[i].rating]

\* a slip that divides by the number of reviews, rated or not
AverageRating_AllReviews(reviews) ==
    LET ratingsWithValue == SelectSeq(RatingsOf(reviews), LAMBDA r : r # Null)
    IN  IF Len(ratingsWithValue) > 0
        THEN MathRound(SumSeq(ratingsWithValue), Len(reviews))
        ELSE 0

\* db.ts lines 214-222, 284 and 446-454, 514: rounded mean of the ratings, or 0
AverageRating(reviews) ==
    LET ratingsWithValue == SelectSeq(RatingsOf(reviews), LAMBDA r : r # Null)
    IN  IF Len(ratingsWithValue) > 0
        THEN MathRound(SumSeq(ratingsWithValue), Len(ratingsWithValue))
        ELSE 0

\* db.ts lines 252-254, 484-486
RecentReviews(reviews, now) ==
    SelectSeq(reviews, LAMBDA r : r.submittedAt >= now - 30 /\ r.rating # Null)

\* db.ts lines 255-257, 487-489
PreviousReviews(reviews, now) ==
    SelectSeq(reviews, LAMBDA r : /\ r.submittedAt >= now - 60
                                  /\ r.submittedAt < now - 30
                                  /\ r.rating # Null)

\* recentAvg - previousAvg as the fraction num / den (den > 0), in tenths
AvgDiff(recent, previous) ==
    [num |-> SumSeq(RatingsOf(recent)) * Len(previous)
                 - SumSeq(RatingsOf(previous)) * Len(recent),
     den |-> Len(recent) * Len(previous)]

Abs(n) == IF n < 0 THEN -n ELSE n

\* Math.round(Math.abs((diff / previousAvg) * 100)); a previous average of 0
\* makes the quotient Infinity, or NaN when the difference is 0 too
TrendPercentage(recent, previous) ==
    LET diff == AvgDiff(recent, previous)
        previousSum == SumSeq(RatingsOf(previous))
    IN  IF previousSum = 0
        THEN IF diff.num = 0 THEN NaN ELSE Infinity
        ELSE MathRound(100 * Abs(diff.num), Len(recent) * previousSum)

\* db.ts lines 259-278
TrendOfDb(reviews, now) ==
    LET recent == RecentReviews(reviews, now)
        previous == PreviousReviews(reviews, now)
    IN  IF Len(recent) > 0 /\ Len(previous) > 0
        THEN [direction |-> IF AvgDiff(recent, previous).num >= 0
                            THEN "up" ELSE "down",
              percentage |-> TrendPercentage(recent, previous)]
        ELSE [direction |-> "up", percentage |-> 0]

\* a slip that gives the in-memory path the default of the database path
TrendOfMock_DefaultUp(reviews, now) ==
    LET recent == RecentReviews(reviews, now)
        previous == PreviousReviews(reviews, now)
        diff == AvgDiff(recent, previous)
    IN  IF Len(recent) > 0 /\ Len(previous) > 0
        THEN [direction |-> IF diff.num > 2 * diff.den THEN "up"
                            ELSE IF diff.num < -2 * diff.den THEN "down"
                            ELSE "stable",
              percentage |-> TrendPercentage(recent, previous)]
        ELSE [direction |-> "up", percentage |-> 0]

\* db.ts lines 491-508: a dead band of 0.2 (2 tenths) around 0
TrendOfMock(reviews, now) ==
    LET recent == RecentReviews(reviews, now)
        previous == PreviousReviews(reviews, now)
        diff == AvgDiff(recent, previous)
    IN  IF Len(recent) > 0 /\ Len(previous) > 0
        THEN [direction |-> IF diff.num > 2 * diff.den THEN "up"
                            ELSE IF diff.num < -2 * diff.den THEN "down"
                            ELSE "stable",
              percentage |-> TrendPercentage(recent, previous)]
        ELSE [direction |-> "stable", percentage |-> 0]

\* a slip that counts the whole input for every property
calculatePropertyPerformance_CountsAll(reviews, now) ==
    LET order == PropertyOrder(reviews, {})
    IN  [i \in 1..Len(order) |->
            LET propertyReviews == ReviewsOf(reviews, order[i])
            IN  [propertyId |-> order[i],
                 propertyName |-> getPropertyNameFromId(order[i]),
                 totalReviews |-> Len(reviews),
                 averageRating |-> AverageRating(propertyReviews),
                 categoryRatings |-> CategoryRatings(propertyReviews),
                 recentTrends |-> TrendOfMock(propertyReviews, now)]]

\* lib/mock-data calculatePropertyPerformance
calculatePropertyPerformance(reviews, now) ==
    LET order == PropertyOrder(reviews, {})
    IN  [i \in 1..Len(order) |->
            LET propertyReviews == ReviewsOf(reviews, order[i])
            IN  [propertyId |-> order[i],
                 propertyName |-> getPropertyNameFromId(order[i]),
                 totalReviews |-> Len(propertyReviews),
                 averageRating |-> AverageRating(propertyReviews),
                 categoryRatings |-> CategoryRatings(propertyReviews),
                 recentTrends |-> TrendOfMock(propertyReviews, now)]]

\* lib/db.ts getPropertiesWithReviews, for one property and one of the
\* orders prisma may return its reviews in
PerformanceOfProperty(props, propertyId, reviews, now) ==
    [propertyId |-> propertyId,
     propertyName |-> props[propertyId],
     totalReviews |-> Len(reviews),
     averageRating |-> AverageRating(reviews),
     categoryRatings |-> CategoryRatings(reviews),
     recentTrends |-> TrendOfDb(reviews, now)]

\* lib/db.ts getPropertiesWithReviews: the results it may return, each a
\* function from the property id to its performance (findMany has no order)
getPropertiesWithReviews(props, tbl, now) ==
    {perf \in [DOMAIN props ->
                 UNION {{PerformanceOfProperty(props, p, reviews, now) :
                           reviews \in getReviewsByProperty(tbl, p)} :
                        p \in DOMAIN props}] :
        \A p \in DOMAIN props : perf[p].propertyId = p}

(***************************************************************************)
(* Specification of the aggregator: a set of reviews is saved to the       *)
(* database, then both aggregation paths are run on it.                    *)
(***************************************************************************)
Today == 100

AggContents ==
    { [rating |-> Null, categories |-> <<>>],
      [rating |-> 0, categories |-> <<>>],
      [rating |-> 80, categories |-> <<>>],
      [rating |-> Null, categories |-> <<[category |-> "cleanliness", rating |-> 0]>>],
      [rating |-> Null, categories |-> <<[category |-> "cleanliness", rating |-> 100]>>] }

AggReview(n, propertyId, content, day) ==
    [id |-> NumberToString(n), propertyId |-> propertyId,
     guestName |-> <<"a">>, rating |-> content.rating,
     publicReview |-> <<"o", "k">>, channel |-> "hostaway",
     reviewType |-> "guest-to-host", status |-> "published",
     displayOnWebsite |-> FALSE, categories |-> content.categories,
     submittedAt |-> day]

\* the lists of at most MaxReviews reviews with the ids 1, 2, ...
AggReviewLists(maxReviews) ==
    UNION {{[i \in 1..k |-> AggReview(i, f[i][1], f[i][2], f[i][3])] :
              f \in [1..k -> {<<"a">>, <<"b">>} \X AggContents
                                 \X {Today - 70, Today - 40, Today - 10}]} :
           k \in 0..maxReviews}

AggInit ==
    /\ \E reviews \in AggReviewLists(MaxReviews) :
           LET db == saveReviewsToDb([props |-> [id \in {} |-> <<>>],
                                      tbl |-> [id \in {} |-> <<>>]], reviews)
           IN  /\ properties = db.props
               /\ reviewsTbl = db.tbl
               /\ arg = [reviews |-> reviews, now |-> Today]
    /\ ret = <<>>
    /\ pc = "idle"
    /\ dashboard = NoDashboard

CallCalculatePropertyPerformance ==
    /\ pc = "idle"
    /\ ret' = calculatePropertyPerformance(arg.reviews, arg.now)
    /\ pc' = "calculatePropertyPerformance"
    /\ UNCHANGED dashboard
    /\ UNCHANGED <<arg, properties, reviewsTbl>>

CallGetPropertiesWithReviews ==
    /\ pc = "idle"
    /\ ret' \in getPropertiesWithReviews(properties, reviewsTbl, arg.now)
    /\ pc' = "getPropertiesWithReviews"
    /\ UNCHANGED dashboard
    /\ UNCHANGED <<arg, properties, reviewsTbl>>

AggNext == CallCalculatePropertyPerformance \/ CallGetPropertiesWithReviews

SpecAgg == AggInit /\ [][AggNext]_vars

\* the category ratings reported for category c by the reviews of property p
ReportedRatings(reviews, p, c) ==
    LET entries == AllEntries(ReviewsOf(reviews, p))
        mine == SelectSeq(entries, LAMBDA e : e.category = c)
    IN  [i \in 1..Len(mine) |-> mine[i].rating]

\* what C10 says categoryRatings must be for property p
ExpectedCategoryRatings(reviews, p) ==
    [c \in {c \in CategoryNames : Len(ReportedRatings(reviews, p, c)) > 0} |->
        MathRound(SumSeq(ReportedRatings(reviews, p, c)),
                  Len(ReportedRatings(reviews, p, c)))]

\* C10: for every property and every category reported by one of its
\* reviews, categoryRatings[category] is the mean of all the ratings reported
\* for it, rounded to 1 decimal (ratings of 0 included); categories nobody
\* reported are absent.
C10_CategoryRatingsAreMeans ==
    /\ pc = "calculatePropertyPerformance" =>
           \A i \in 1..Len(ret) :
               ret[i].categoryRatings =
                   ExpectedCategoryRatings(arg.reviews, ret[i].propertyId)
    /\ pc = "getPropertiesWithReviews" =>
           \A p \in DOMAIN ret :
               ret[p].categoryRatings = ExpectedCategoryRatings(arg.reviews, p)

(***************************************************************************)
(* Specification of the aggregator on rated and unrated reviews spread     *)
(* over the two 30-day windows, their boundaries, and the days outside.    *)
(***************************************************************************)
\* <<rating, days after Today>> of the reviews of property "a"
TrendContents ==
    { <<85, -61>>, <<85, -60>>, <<0, -31>>, <<Null, -31>>, <<85, -30>>,
      <<0, 0>>, <<84, 0>>, <<Null, 0>>, <<85, 1>> }

\* <<property, rating, days after Today>>
TrendOptions ==
    {<<(<<"a">>), c[1], c[2]>> : c \in TrendContents} \cup {<<(<<"b">>), 85, 0>>}

TrendReviewLists(maxReviews) ==
    UNION {{[i \in 1..k |->
               AggReview(i, f[i][1], [rating |-> f[i][2], categories |-> <<>>],
                         Today + f[i][3])] :
              f \in [1..k -> TrendOptions]} :
           k \in 0..maxReviews}

TrendInit ==
    /\ \E reviews \in TrendReviewLists(MaxReviews) :
           LET db == saveReviewsToDb([props |-> [id \in {} |-> <<>>],
                                      tbl |-> [id \in {} |-> <<>>]], reviews)
           IN  /\ properties = db.props
               /\ reviewsTbl = db.tbl
               /\ arg = [reviews |-> reviews, now |-> Today]
    /\ ret = <<>>
    /\ pc = "idle"
    /\ dashboard = NoDashboard

SpecTrend == TrendInit /\ [][AggNext]_vars

\* the PropertyPerformance records the last call produced
Perfs ==
    IF pc = "calculatePropertyPerformance" THEN {ret[i] : i \in 1..Len(ret)}
    ELSE IF pc = "getPropertiesWithReviews" THEN {ret[p] : p \in DOMAIN ret}
    ELSE {}

\* the positions in the input of the reviews of property p, and the rated ones
GroupOf(p) == {i \in 1..Len(arg.reviews) : arg.reviews[i].propertyId = p}
RatedOf(p) == {i \in GroupOf(p) : arg.reviews[i].rating # Null}

\* the sum of the ratings of the input reviews at the positions S
RECURSIVE SumRatingsAt(_)
SumRatingsAt(S) ==
    IF S = {} THEN 0
    ELSE LET i == CHOOSE j \in S : TRUE
         IN  arg.reviews[i].rating + SumRatingsAt(S \ {i})

\* q is num / den (den > 0) rounded to the nearest integer, halves upwards
IsRoundOf(q, num, den) ==
    /\ 2 * den * q - den <= 2 * num
    /\ 2 * num < 2 * den * q + den

C12_PercentageIsFiniteNatural ==
    \A perf \in Perfs : perf.recentTrends.percentage \in Nat

\* the rated reviews of property p submitted on or after now - 30 days, and
\* those submitted from now - 60 days up to, not including, now - 30 days
RecentOf(p) ==
    {i \in RatedOf(p) : arg.reviews[i].submittedAt >= arg.now - 30}
PreviousOf(p) ==
    {i \in RatedOf(p) : /\ arg.reviews[i].submittedAt >= arg.now - 60
                        /\ arg.reviews[i].submittedAt < arg.now - 30}

DiffTimesSizes(p) ==
    SumRatingsAt(RecentOf(p)) * Cardinality(PreviousOf(p))
        - SumRatingsAt(PreviousOf(p)) * Cardinality(RecentOf(p))

\* C14: in getPropertiesWithReviews, when both windows contain a rated
\* review, percentage = round(abs((recentAvg - previousAvg) / previousAvg)
\* * 100), and direction is "up" exactly when recentAvg - previousAvg >= 0
\* and "down" otherwise; equal averages yield "up" with percentage 0.
C14_TrendOfBothWindows ==
    pc = "getPropertiesWithReviews" =>
        \A perf \in Perfs :
            LET p == perf.propertyId
                diff == DiffTimesSizes(p)
                previousSum == SumRatingsAt(PreviousOf(p))
            IN  (RecentOf(p) # {} /\ PreviousOf(p) # {}) =>
                    /\ perf.recentTrends.direction =
                           IF diff >= 0 THEN "up" ELSE "down"
                    /\ diff = 0 => perf.recentTrends.percentage = 0
                    /\ previousSum > 0 =>
                           IsRoundOf(perf.recentTrends.percentage,
                                     100 * Abs(diff),
                                     Cardinality(RecentOf(p)) * previousSum)

\* C15: a review contributes to the recent window iff it is rated and
\* now - 30d <= submittedAt <= now, and to the previous window iff it is
\* rated and now - 60d <= submittedAt < now - 30d; no review contributes to
\* both, and an older or unrated review contributes to neither.
C15_WindowMembership ==
    pc # "idle" =>
        \A i \in 1..Len(arg.reviews) :
            LET r == arg.reviews[i]
                group == ReviewsOf(arg.reviews, r.propertyId)
                recent == RecentReviews(group, arg.now)
                previous == PreviousReviews(group, arg.now)
                inRecent == \E j \in 1..Len(recent) : recent[j] = r
                inPrevious == \E j \in 1..Len(previous) : previous[j] = r
            IN  /\ inRecent <=> /\ r.rating # Null
                                /\ arg.now - 30 <= r.submittedAt
                                /\ r.submittedAt <= arg.now
                /\ inPrevious <=> /\ r.rating # Null
                                  /\ arg.now - 60 <= r.submittedAt
                                  /\ r.submittedAt < arg.now - 30
                /\ ~(inRecent /\ inPrevious)

\* the sum of totalReviews over the first n records of the result
RECURSIVE SumTotalReviews(_)
SumTotalReviews(n) ==
    IF n = 0 THEN 0 ELSE ret[n].totalReviews + SumTotalReviews(n - 1)

\* C16: calculatePropertyPerformance returns exactly one PropertyPerformance
\* per distinct propertyId of the input and none for any other id (none at
\* all for the empty input), and the totalReviews values sum to the number
\* of input reviews.
C16_OnePerformancePerProperty ==
    pc = "calculatePropertyPerformance" =>
        /\ {ret[i].propertyId : i \in 1..Len(ret)} =
               {arg.reviews[i].propertyId : i \in 1..Len(arg.reviews)}
        /\ \A i, j \in 1..Len(ret) :
               ret[i].propertyId = ret[j].propertyId => i = j
        /\ SumTotalReviews(Len(ret)) = Len(arg.reviews)
        /\ arg.reviews = <<>> => ret = <<>>

\* three reviews of two properties, interleaved
C16_Witness ==
    /\ pc = "calculatePropertyPerformance"
    /\ Len(arg.reviews) = 3
    /\ arg.reviews[1].propertyId = arg.reviews[3].propertyId
    /\ arg.reviews[1].propertyId # arg.reviews[2].propertyId
    /\ Len(ret) = 2

(***************************************************************************)
(* Specification of calculateAverageRating called on every category list.  *)
(***************************************************************************)
\* ratings in tenths: 0, 8.5 and 9.0, a null or undefined rating, and NaN
AvgRatingValues == {0, 85, 90, Null, NaN}

AvgCategoryLists(maxCats) ==
    SeqsUpTo([category : CategoryNames, rating : AvgRatingValues], maxCats)
        \cup {AbsentCategories}

AvgInit ==
    /\ EmptyDb
    /\ arg \in AvgCategoryLists(MaxCats)
    /\ ret = Null
    /\ pc = "idle"
    /\ dashboard = NoDashboard

CallCalculateAverageRating ==
    /\ pc = "idle"
    /\ ret' = calculateAverageRating(arg)
    /\ pc' = "calculateAverageRating"
    /\ UNCHANGED dashboard
    /\ UNCHANGED <<arg, properties, reviewsTbl>>

AvgNext == CallCalculateAverageRating

SpecAvg == AvgInit /\ [][AvgNext]_vars

\* the positions of the entries of the argument that carry a valid rating
ValidAt ==
    IF arg = AbsentCategories THEN {}
    ELSE {i \in 1..Len(arg) : arg[i].rating \notin {Null, NaN}}

\* the sum of the ratings of the argument at the positions S
RECURSIVE SumCategoryRatingsAt(_)
SumCategoryRatingsAt(S) ==
    IF S = {} THEN 0
    ELSE LET i == CHOOSE j \in S : TRUE
         IN  arg[i].rating + SumCategoryRatingsAt(S \ {i})

\* C17: calculateAverageRating returns null exactly when the input has no
\* entry with a valid rating (input empty or absent, or every rating null,
\* undefined or NaN); a number it returns, 0 included, comes from at least
\* one valid rating.
C17_NullIffNoValidRating ==
    pc = "calculateAverageRating" =>
        /\ ret = Null <=> ValidAt = {}
        /\ ret # Null => ret \in Nat /\ ValidAt # {}
        /\ ret = 0 => \E i \in ValidAt : arg[i].rating = 0

\* a 0 that is the mean of a rating of 0, next to an invalid entry
C17_Witness ==
    /\ pc = "calculateAverageRating"
    /\ Len(arg) = 2
    /\ arg[1].rating = NaN
    /\ arg[2].rating = 0
    /\ ret = 0

\* C18: for a category list with at least one valid rating,
\* calculateAverageRating returns the mean of the valid ratings only,
\* rounded to 1 decimal place (one tenth) with halves rounded up.
C18_MeanOfValidRatings ==
    (pc = "calculateAverageRating" /\ ValidAt # {}) =>
        IsRoundOf(ret, SumCategoryRatingsAt(ValidAt), Cardinality(ValidAt))

\* the mean 8.75 of 8.5 and 9.0 is rounded up to 8.8
C18_Witness ==
    /\ pc = "calculateAverageRating"
    /\ Cardinality(ValidAt) = 2
    /\ SumCategoryRatingsAt(ValidAt) = 175
    /\ ret = 88

\* the length of the longest prefix of s made of letters and digits
RECURSIVE LeadingRun(_)
LeadingRun(s) ==
    IF s = <<>> \/ ~IsAlnum(ToLowerChar(Head(s))) THEN 0
    ELSE 1 + LeadingRun(Tail(s))

\* the maximal runs of letters and digits of s, lower-cased, in order
RECURSIVE WordsOf(_)
WordsOf(s) ==
    IF s = <<>> THEN <<>>
    ELSE IF LeadingRun(s) = 0 THEN WordsOf(Tail(s))
    ELSE <<toLowerCase(SubSeq(s, 1, LeadingRun(s)))>>
             \o WordsOf(SubSeq(s, LeadingRun(s) + 1, Len(s)))

\* the words joined by single hyphens
RECURSIVE JoinWithHyphens(_)
JoinWithHyphens(words) ==
    IF words = <<>> THEN <<>>
    ELSE IF Len(words) = 1 THEN words[1]
    ELSE words[1] \o <<"-">> \o JoinWithHyphens(Tail(words))

\* the names that differ from s only in letter case or in the characters
\* making up its separator runs: a character replaced by one of its class,
\* or one character of a run of two separators left out
SameClass(c, d) ==
    IF IsAlnum(ToLowerChar(c)) THEN ToLowerChar(d) = ToLowerChar(c)
    ELSE ~IsAlnum(ToLowerChar(d))
RECURSIVE SameClassNames(_)
SameClassNames(s) ==
    IF s = <<>> THEN {<<>>}
    ELSE {<<d>> \o t : d \in {c \in NameChars : SameClass(Head(s), c)},
                       t \in SameClassNames(Tail(s))}
Variants(s) ==
    SameClassNames(s)
        \cup {SubSeq(s, 1, i - 1) \o SubSeq(s, i + 1, Len(s)) :
                i \in {j \in 1..(Len(s) - 1) : /\ ~IsAlnum(ToLowerChar(s[j]))
                                               /\ ~IsAlnum(ToLowerChar(s[j + 1]))}}

\* C19: for a listing name that does not strip to nothing,
\* mapListingToPropertyId returns its lower-cased words joined by single
\* hyphens; the result is non-empty, contains only [a-z0-9-], has no
\* leading, trailing or doubled hyphen, and is the same for names that
\* differ only in letter case or in the characters of the separator runs.
C19_SlugOfWords ==
    (pc = "mapListingToPropertyId" /\ ~StripsToNothing(arg)) =>
        /\ ~ret.threw
        /\ ret.value = JoinWithHyphens(WordsOf(arg))
        /\ ret.value # <<>>
        /\ \A i \in 1..Len(ret.value) : IsIdChar(ret.value[i])
        /\ ret.value[1] # "-" /\ ret.value[Len(ret.value)] # "-"
        /\ \A i \in 1..(Len(ret.value) - 1) :
               ~(ret.value[i] = "-" /\ ret.value[i + 1] = "-")
        /\ \A other \in Variants(arg) : mapListingToPropertyId(other) = ret

\* "A -a" : a capital letter and a run of two separators between two words
C19_Witness ==
    /\ pc = "mapListingToPropertyId"
    /\ arg = <<"A", " ", "-", "a">>
    /\ ret = Returned(<<"a", "-", "a">>)

\* C20: for a raw record with a valid listing name, normalizeHostawayReview
\* returns a review whose submittedAt is a valid date: the direct parse of
\* raw.submittedAt if that is valid, else the parse of the text with its
\* first space replaced by "T" if that is valid, else the current time; an
\* unparseable or missing date text makes it neither throw nor drop the
\* record.
C20_SubmittedAtIsValidDate ==
    (pc = "normalizeHostawayReview" /\ ~StripsToNothing(arg.raw.listingName)) =>
        LET text == arg.raw.submittedAt
            direct == NewDate(text)
            replaced == IF text.kind \in {"undefined", "null"} THEN InvalidDate
                        ELSE NewDate(ReplaceSpaceWithT(text))
        IN  /\ ~ret.threw
            /\ ret.value.id = NumberToString(arg.raw.id)
            /\ ret.value.submittedAt # InvalidDate
            /\ ret.value.submittedAt =
                   IF direct # InvalidDate THEN direct
                   ELSE IF replaced # InvalidDate THEN replaced
                   ELSE arg.now

\* a text that only parses once its space is a "T"
C20_Witness ==
    /\ pc = "normalizeHostawayReview"
    /\ ~ret.threw
    /\ arg.raw.submittedAt.kind = "spacedStrict"
    /\ ret.value.submittedAt = arg.raw.submittedAt.day
    /\ ret.value.submittedAt # arg.now

(***************************************************************************)
(* Specification of ingestion: the three producers of reviews, on raw      *)
(* records that carry a displayOnWebsite field of their own.               *)
(***************************************************************************)
\* lib/mock-data loadMockReviewsNormalized; mockData is the imported module
loadMockReviewsNormalized(mockData, now) ==
    LET PerRecord(raw) == NormalizeOrPlaceholder(raw, now)
        normalized == MapThrowing(mockData.result, PerRecord)
    IN  IF mockData.status = "success"
        THEN IF normalized.threw THEN <<>> ELSE normalized.value
        ELSE <<>>

IngestRawReviews ==
    {[id |-> r.id, type |-> r.type, status |-> r.status, rating |-> r.rating,
      publicReview |-> r.publicReview, reviewCategory |-> r.reviewCategory,
      submittedAt |-> r.submittedAt, guestName |-> r.guestName,
      listingName |-> r.listingName, displayOnWebsite |-> TRUE] :
       r \in RawReviewSet({1, Null}, {"guest-to-host"},
                          {Absent, <<"a", " ", "B">>}, {85},
                          {<<>>, <<[category |-> "cleanliness", rating |-> 100]>>},
                          {[kind |-> "iso", day |-> 10]}, {<<"a">>},
                          {<<"o", "k">>})}

IngestEnvs(maxBatch) ==
    [credentials : {TRUE}, fetch : {"ok"},
     result : SeqsUpTo(IngestRawReviews, maxBatch)]
    \cup [credentials : {TRUE}, fetch : {"threw", "notOk", "badShape"},
          result : {<<>>}]
    \cup [credentials : {FALSE}, fetch : {"none"}, result : {<<>>}]

\* what the import of lib/mock-reviews.json may yield: the bundled dataset,
\* a dataset holding a record without listing name, a file of another shape
IngestMockFiles ==
    { [status |-> "success", result |-> MockReviews],
      [status |-> "success",
       result |-> <<CHOOSE r \in IngestRawReviews :
                        /\ r.id = 1 /\ r.listingName = Absent
                        /\ r.reviewCategory = <<>> >>],
      [status |-> "error", result |-> <<>>] }

IngestInit ==
    /\ EmptyDb
    /\ arg \in [env : IngestEnvs(MaxBatch), now : {50}, mock : IngestMockFiles]
    /\ ret = <<>>
    /\ pc = "idle"
    /\ dashboard = NoDashboard

\* normalizeHostawayReview on the first fetched record
CallNormalizeFetched ==
    /\ pc = "idle"
    /\ Len(arg.env.result) > 0
    /\ ret' = normalizeHostawayReview(arg.env.result[1], arg.now)
    /\ pc' = "normalizeHostawayReview"
    /\ UNCHANGED dashboard
    /\ UNCHANGED <<arg, properties, reviewsTbl>>

CallLoadMockReviewsNormalized ==
    /\ pc = "idle"
    /\ ret' = loadMockReviewsNormalized(arg.mock, arg.now)
    /\ pc' = "loadMockReviewsNormalized"
    /\ UNCHANGED dashboard
    /\ UNCHANGED <<arg, properties, reviewsTbl>>

IngestNext == CallNormalizeFetched \/ CallGET \/ CallLoadMockReviewsNormalized

SpecIngest == IngestInit /\ [][IngestNext]_vars

\* C21: every review produced by ingestion (normalizeHostawayReview, the
\* placeholder branch of GET, loadMockReviewsNormalized) has
\* displayOnWebsite = false, whatever fields the raw record contains.
C21_IngestedReviewsAreHidden ==
    /\ (pc = "normalizeHostawayReview" /\ ~ret.threw) =>
           ret.value.displayOnWebsite = FALSE
    /\ pc = "GET" =>
           \A i \in 1..Len(ret.body.result) :
               ret.body.result[i].displayOnWebsite = FALSE
    /\ pc = "loadMockReviewsNormalized" =>
           \A i \in 1..Len(ret) : ret[i].displayOnWebsite = FALSE

\* a placeholder built by GET from a record that says displayOnWebsite true
C21_Witness ==
    /\ pc = "GET"
    /\ Len(arg.env.result) = 1
    /\ arg.env.result[1].displayOnWebsite = TRUE
    /\ Len(ret.body.result) = 1
    /\ ret.body.result[1].propertyId = Unknown
    /\ ret.body.result[1].displayOnWebsite = FALSE

(***************************************************************************)
(* Curation (app/actions.ts): the server actions that set the flag of      *)
(* stored reviews.  dbUp says whether the database answers the request.    *)
(***************************************************************************)
DatabaseDown == "Can't reach database server"

\* a slip that reports success whatever the update did
toggleReviewDisplay_AlwaysSuccess(tbl, reviewId, display, dbUp) ==
    LET updated == IF dbUp
                   THEN updateReviewDisplayStatus(tbl, reviewId, display)
                   ELSE Threw(DatabaseDown)
    IN  [tbl |-> IF updated.threw THEN tbl ELSE updated.value,
         result |-> [success |-> TRUE]]

\* app/actions.ts toggleReviewDisplay: the store it leaves and what it returns
toggleReviewDisplay(tbl, reviewId, display, dbUp) ==
    LET updated == IF dbUp
                   THEN updateReviewDisplayStatus(tbl, reviewId, display)
                   ELSE Threw(DatabaseDown)
    IN  IF updated.threw
        THEN [tbl |-> tbl,
              result |-> [success |-> FALSE, error |-> updated.error]]
        ELSE [tbl |-> updated.value, result |-> [success |-> TRUE]]

\* the sequences without repetition of elements of S
InjectiveSeqs(S) ==
    {f \in SeqsUpTo(S, Cardinality(S)) :
        \A i, j \in 1..Len(f) : i # j => f[i] # f[j]}

\* the updates at the positions of order, applied one after the other
RECURSIVE ApplyUpdates(_, _, _)
ApplyUpdates(tbl, updates, order) ==
    IF order = <<>> THEN tbl
    ELSE LET u == updates[Head(order)]
         IN  ApplyUpdates(
                 updateReviewDisplayStatus(tbl, u.reviewId, u.display).value,
                 updates, Tail(order))

\* app/actions.ts batchToggleReviewDisplay: the outcomes at the time it
\* returns.  All updates are started together (updates.map); Promise.all
\* resolves when all are done, in any order, and rejects at the first
\* rejection, when any of the other updates may have been done.
batchToggleReviewDisplay(tbl, updates, dbUp) ==
    LET found == {i \in 1..Len(updates) : updates[i].reviewId \in DOMAIN tbl}
    IN  IF ~dbUp
        THEN {[tbl |-> tbl,
               result |-> [success |-> FALSE, error |-> DatabaseDown]]}
        ELSE IF found = 1..Len(updates)
        THEN {[tbl |-> ApplyUpdates(tbl, updates, order),
               result |-> [success |-> TRUE]] :
                 order \in {f \in InjectiveSeqs(found) : Len(f) = Len(updates)}}
        ELSE {[tbl |-> ApplyUpdates(tbl, updates, order),
               result |-> [success |-> FALSE,
                           error |-> "Record to update not found"]] :
                 order \in InjectiveSeqs(found)}

(***************************************************************************)
(* Specification of curation on a store filled by one ingestion.           *)
(***************************************************************************)
\* the reviews of the store, and the review ids the manager's calls name
CurationRawReviews == {r \in StoreRawReviews : r.listingName = <<"a">> /\ r.rating = 70}
CurationReviewIds == {NumberToString(n) : n \in {1, 2}}

CurationUpdates(maxBatch) ==
    SeqsUpTo([reviewId : CurationReviewIds, display : BOOLEAN], maxBatch)

CurationInit ==
    /\ \E raws \in SeqsUpTo(CurationRawReviews, MaxBatch) :
           LET reviews == [i \in 1..Len(raws) |->
                              normalizeHostawayReview(raws[i], 50).value]
               db == saveReviewsToDb([props |-> [id \in {} |-> <<>>],
                                      tbl |-> [id \in {} |-> <<>>]], reviews)
           IN  properties = db.props /\ reviewsTbl = db.tbl
    /\ arg = <<>>
    /\ ret = [success |-> TRUE]
    /\ pc = "idle"
    /\ dashboard = NoDashboard

CallToggleReviewDisplay ==
    \E reviewId \in CurationReviewIds, display \in BOOLEAN, dbUp \in BOOLEAN :
        LET done == toggleReviewDisplay(reviewsTbl, reviewId, display, dbUp)
        IN  /\ arg' = [reviewId |-> reviewId, display |-> display]
            /\ reviewsTbl' = done.tbl
            /\ ret' = done.result
            /\ pc' = "toggleReviewDisplay"
            /\ UNCHANGED dashboard
            /\ UNCHANGED properties

CallBatchToggleReviewDisplay ==
    \E updates \in CurationUpdates(MaxBatch), dbUp \in BOOLEAN :
        \E done \in batchToggleReviewDisplay(reviewsTbl, updates, dbUp) :
            /\ arg' = [updates |-> updates]
            /\ reviewsTbl' = done.tbl
            /\ ret' = done.result
            /\ pc' = "batchToggleReviewDisplay"
            /\ UNCHANGED dashboard
            /\ UNCHANGED properties

CurationNext == CallToggleReviewDisplay \/ CallBatchToggleReviewDisplay

SpecCuration == CurationInit /\ [][CurationNext]_vars

C24_ToggleReportsFailure ==
    [][pc' = "toggleReviewDisplay" =>
          /\ arg'.reviewId \notin DOMAIN reviewsTbl => ~ret'.success
          /\ ~ret'.success =>
                 /\ DOMAIN ret' = {"success", "error"}
                 /\ reviewsTbl' = reviewsTbl
          /\ ret'.success =>
                 /\ arg'.reviewId \in DOMAIN reviewsTbl'
                 /\ reviewsTbl'[arg'.reviewId].displayOnWebsite = arg'.display]_vars

\* a toggle of a review id that the non-empty store does not hold
C24_Witness ==
    /\ pc = "toggleReviewDisplay"
    /\ reviewsTbl # <<>>
    /\ arg.reviewId \notin DOMAIN reviewsTbl
    /\ ret = [success |-> FALSE, error |-> "Record to update not found"]

\* C28: batchToggleReviewDisplay is all-or-nothing: when it returns
\* {success: false} no stored review's displayOnWebsite differs from its
\* value before the call; when it returns {success: true} every listed
\* update has been applied.
C28_BatchIsAllOrNothing ==
    [][pc' = "batchToggleReviewDisplay" =>
          /\ ~ret'.success =>
                 \A id \in DOMAIN reviewsTbl :
                     reviewsTbl'[id].displayOnWebsite =
                         reviewsTbl[id].displayOnWebsite
          /\ ret'.success =>
                 \A i \in 1..Len(arg'.updates) :
                     /\ arg'.updates[i].reviewId \in DOMAIN reviewsTbl'
                     /\ \E j \in 1..Len(arg'.updates) :
                            /\ arg'.updates[j].reviewId = arg'.updates[i].reviewId
                            /\ reviewsTbl'[arg'.updates[i].reviewId].displayOnWebsite
                                   = arg'.updates[j].display]_vars

(***************************************************************************)
(* The seed script (prisma/seed.ts).  Its normalizer does not round, so    *)
(* its rating is the fraction num / den of tenths; a null rating has num   *)
(* Null.  The records it reads have no listingMapName field and carry      *)
(* numbers or null as ratings.                                             *)
(***************************************************************************)
\* prisma/seed.ts normalizeHostawayReview, the rating block (lines 33-44)
SeedRating(raw) ==
    IF raw.rating # Null THEN [num |-> raw.rating, den |-> 1]
    ELSE LET all == [i \in 1..Len(raw.reviewCategory) |->
                        raw.reviewCategory[i].rating]
             ratings == SelectSeq(all, LAMBDA r : r # Null)
         IN  IF Len(ratings) > 0
             THEN [num |-> SumSeq(ratings), den |-> Len(ratings)]
             ELSE [num |-> Null, den |-> 1]

\* prisma/seed.ts normalizeHostawayReview
SeedNormalizeHostawayReview(raw) ==
    IF Falsy(raw.listingName) THEN Threw("missing listingName")
    ELSE IF raw.rating = Null /\ raw.reviewCategory = AbsentCategories
    THEN Threw("TypeError")                      \* undefined.filter
    ELSE IF raw.id = Null THEN Threw("TypeError")   \* raw.id.toString()
    ELSE Returned([
            id |-> NumberToString(raw.id),
            propertyId |-> StripHyphens(ReplaceRuns(trim(toLowerCase(raw.listingName)))),
            guestName |-> raw.guestName,
            rating |-> SeedRating(raw),
            publicReview |-> raw.publicReview,
            channel |-> "hostaway",
            reviewType |-> raw.type,
            status |-> raw.status,
            displayOnWebsite |-> FALSE,
            categories |-> raw.reviewCategory,
            submittedAt |-> NewDate(raw.submittedAt)])

(***************************************************************************)
(* Specification of the two normalizers called on the same record of the   *)
(* shape of the mock dataset: every field present, whole category ratings. *)
(***************************************************************************)
SeedRawReviews(maxCats) ==
    RawReviewSet({7453}, {"host-to-guest", "guest-to-host"},
                 {<<"2", "B", " ", "a">>, <<"a", " ", "-", " ", "1">>},
                 {Null, 80},
                 SeqsUpTo([category : {"cleanliness"}, rating : {90, 100}],
                          maxCats),
                 {[kind |-> "spaced", day |-> 10]}, {<<"a">>}, {<<"o", "k">>})

SeedInit ==
    /\ EmptyDb
    /\ arg \in [raw : SeedRawReviews(MaxCats), now : {50}]
    /\ ret = <<>>
    /\ pc = "idle"
    /\ dashboard = NoDashboard

CallBothNormalizers ==
    /\ pc = "idle"
    /\ ret' = [api |-> normalizeHostawayReview(arg.raw, arg.now),
               seeded |-> SeedNormalizeHostawayReview(arg.raw)]
    /\ pc' = "normalized"
    /\ UNCHANGED dashboard
    /\ UNCHANGED <<arg, properties, reviewsTbl>>

SeedNext == CallBothNormalizers

SpecSeed == SeedInit /\ [][SeedNext]_vars

\* C25: for every raw record of the shape of the mock dataset, the seed
\* script's normalizer and the one of lib/utils produce the same review:
\* same id, propertyId, guestName, rating, publicReview, channel,
\* reviewType, status, displayOnWebsite, categories and submittedAt.
C25_SeedNormalizerIsDuplicate ==
    pc = "normalized" =>
        /\ ~ret.api.threw /\ ~ret.seeded.threw
        /\ LET a == ret.api.value
               s == ret.seeded.value
           IN  /\ \A f \in {"id", "propertyId", "guestName", "publicReview",
                            "channel", "reviewType", "status",
                            "displayOnWebsite", "categories", "submittedAt"} :
                      a[f] = s[f]
               /\ IF a.rating = Null THEN s.rating.num = Null
                  ELSE /\ s.rating.num # Null
                       /\ s.rating.num = a.rating * s.rating.den

\* what calculatePropertyPerformance reports for property p of the reviews
MockPerformanceOf(reviews, now, p) ==
    LET perfs == calculatePropertyPerformance(reviews, now)
    IN  perfs[CHOOSE i \in 1..Len(perfs) : perfs[i].propertyId = p]

\* C26: run on the same reviews at the same time, getPropertiesWithReviews
\* and calculatePropertyPerformance report, for every property with at
\* least one review, the same totalReviews, averageRating, categoryRatings
\* and recentTrends.percentage; they may differ in the trend direction only.
C26_BothPathsAgree ==
    pc = "getPropertiesWithReviews" =>
        \A p \in DOMAIN ret :
            LET mock == MockPerformanceOf(arg.reviews, arg.now, p)
            IN  /\ ret[p].totalReviews = mock.totalReviews
                /\ ret[p].averageRating = mock.averageRating
                /\ ret[p].categoryRatings = mock.categoryRatings
                /\ ret[p].recentTrends.percentage = mock.recentTrends.percentage

(***************************************************************************)
(* The writes of saveReviewsToDb and of the seed script, one prisma call   *)
(* each, so that an operation can stop between two of them.  The foreign   *)
(* key Review.propertyId -> Property.id is what is verified below, so the  *)
(* writes are modelled by what the code asks for, not by what the schema   *)
(* would refuse.                                                           *)
(***************************************************************************)
\* the review upserts of one property (lib/db.ts lines 50-78)
ReviewUpserts(propertyReviews) ==
    [i \in 1..Len(propertyReviews) |->
        [kind |-> "review.upsert", review |-> propertyReviews[i]]]

\* a slip that saves the reviews of a property before the property
RECURSIVE SaveWrites_ReviewsFirst(_, _)
SaveWrites_ReviewsFirst(reviews, order) ==
    IF order = <<>> THEN <<>>
    ELSE LET propertyReviews == ReviewsOf(reviews, Head(order))
         IN  ReviewUpserts(propertyReviews)
                 \o <<[kind |-> "property.upsert", propertyId |-> Head(order),
                       propertyReviews |-> propertyReviews]>>
                 \o SaveWrites_ReviewsFirst(reviews, Tail(order))

\* lib/db.ts saveReviewsToDb, lines 33-79: the prisma calls in order
RECURSIVE SaveWrites(_, _)
SaveWrites(reviews, order) ==
    IF order = <<>> THEN <<>>
    ELSE LET propertyReviews == ReviewsOf(reviews, Head(order))
         IN  <<[kind |-> "property.upsert", propertyId |-> Head(order),
                propertyReviews |-> propertyReviews]>>
                 \o ReviewUpserts(propertyReviews)
                 \o SaveWrites(reviews, Tail(order))

\* the review creates of one property (prisma/seed.ts lines 113-130)
ReviewCreates(propertyReviews) ==
    [i \in 1..Len(propertyReviews) |->
        [kind |-> "review.create", review |-> propertyReviews[i]]]

\* prisma/seed.ts main, lines 100-131: the prisma calls of the loop
RECURSIVE SeedCreates(_, _)
SeedCreates(reviews, order) ==
    IF order = <<>> THEN <<>>
    ELSE <<[kind |-> "property.create", propertyId |-> Head(order),
            propertyName |-> getPropertyNameFromId(Head(order))]>>
             \o ReviewCreates(ReviewsOf(reviews, Head(order)))
             \o SeedCreates(reviews, Tail(order))

\* prisma/seed.ts main: its prisma calls in order, and whether it throws
\* between the clearing and the creating (bad file, record without name)
SeedWrites(mockData) ==
    LET clear == <<[kind |-> "review.deleteMany"],
                   [kind |-> "property.deleteMany"]>>
        normalized == MapThrowing(mockData.result, SeedNormalizeHostawayReview)
    IN  IF mockData.status # "success" \/ normalized.threw
        THEN [writes |-> clear, throws |-> TRUE]
        ELSE [writes |-> clear \o SeedCreates(normalized.value,
                                     PropertyOrder(normalized.value, {})),
              throws |-> FALSE]

\* one prisma call on the database; create rejects a primary key in use
ApplyWrite(db, w) ==
    CASE w.kind = "property.upsert" ->
             Returned([db EXCEPT !.props =
                          UpsertProperty(@, w.propertyId, w.propertyReviews)])
      [] w.kind = "review.upsert" ->
             Returned([db EXCEPT !.tbl = UpsertReview(@, w.review)])
      [] w.kind = "review.deleteMany" ->
             Returned([db EXCEPT !.tbl = [id \in {} |-> <<>>]])
      [] w.kind = "property.deleteMany" ->
             Returned([db EXCEPT !.props = [id \in {} |-> <<>>]])
      [] w.kind = "property.create" ->
             IF w.propertyId \in DOMAIN db.props
             THEN Threw("Unique constraint failed")
             ELSE Returned([db EXCEPT !.props =
                              @ @@ (w.propertyId :> w.propertyName)])
      [] w.kind = "review.create" ->
             IF w.review.id \in DOMAIN db.tbl
             THEN Threw("Unique constraint failed")
             ELSE Returned([db EXCEPT !.tbl = UpsertReview(@, w.review)])

\* the calls one after the other, up to the first that throws
RECURSIVE ApplyWrites(_, _)
ApplyWrites(db, writes) ==
    IF writes = <<>> THEN [db |-> db, threw |-> FALSE]
    ELSE LET done == ApplyWrite(db, Head(writes))
         IN  IF done.threw THEN [db |-> db, threw |-> TRUE]
             ELSE ApplyWrites(done.value, Tail(writes))

\* lib/db.ts saveReviewsToDb whose database fails after `completed` calls
saveReviewsToDbUpTo(db, reviews, completed) ==
    LET writes == SaveWrites(reviews, PropertyOrder(reviews, {}))
        done == ApplyWrites(db, SubSeq(writes, 1, completed))
    IN  [db |-> done.db, threw |-> done.threw \/ completed < Len(writes)]

\* prisma/seed.ts main whose database fails after `completed` calls
SeedMain(db, mockData, completed) ==
    LET seed == SeedWrites(mockData)
        done == ApplyWrites(db, SubSeq(seed.writes, 1, completed))
    IN  [db |-> done.db,
         threw |-> done.threw \/ completed < Len(seed.writes) \/ seed.throws]

\* lib/db.ts deleteReview
deleteReview(tbl, reviewId) ==
    IF reviewId \in DOMAIN tbl
    THEN Returned([id \in DOMAIN tbl \ {reviewId} |-> tbl[id]])
    ELSE Threw("Record to delete does not exist")

(***************************************************************************)
(* Specification of the store under seeds, saves, approval updates and     *)
(* deletions, each of the first two possibly stopping part-way.            *)
(***************************************************************************)
IntegrityRawReviews ==
    RawReviewSet({1, 2}, {"guest-to-host"}, {<<"a">>, <<>>}, {70},
                 {<<>>}, {[kind |-> "iso", day |-> 10]}, {<<"a">>},
                 {<<"o", "k">>})

\* the files the seed script may import
IntegrityMockFiles(maxBatch) ==
    [status : {"success"}, result : SeqsUpTo(IntegrityRawReviews, maxBatch)]
    \cup {[status |-> "error", result |-> <<>>]}

\* the batches a caller may save: normalized reviews, placeholders included
IntegrityBatches(maxBatch) ==
    {[i \in 1..Len(raws) |-> NormalizeOrPlaceholder(raws[i], 50).value] :
        raws \in SeqsUpTo(IntegrityRawReviews, maxBatch)}

IntegrityInit ==
    /\ EmptyDb
    /\ arg = <<>>
    /\ ret = [threw |-> FALSE]
    /\ pc = "idle"
    /\ dashboard = NoDashboard

RunSeed ==
    \E mockData \in IntegrityMockFiles(MaxBatch) :
        \E completed \in 0..Len(SeedWrites(mockData).writes) :
            LET done == SeedMain([props |-> properties, tbl |-> reviewsTbl],
                                 mockData, completed)
            IN  /\ properties' = done.db.props
                /\ reviewsTbl' = done.db.tbl
                /\ ret' = [threw |-> done.threw]
                /\ pc' = "seed"
                /\ UNCHANGED dashboard
                /\ UNCHANGED arg

CallSaveReviewsToDb ==
    \E reviews \in IntegrityBatches(MaxBatch) :
        \E completed \in 0..Len(SaveWrites(reviews, PropertyOrder(reviews, {}))) :
            LET done == saveReviewsToDbUpTo(
                            [props |-> properties, tbl |-> reviewsTbl],
                            reviews, completed)
            IN  /\ properties' = done.db.props
                /\ reviewsTbl' = done.db.tbl
                /\ ret' = [threw |-> done.threw]
                /\ pc' = "saveReviewsToDb"
                /\ UNCHANGED dashboard
                /\ UNCHANGED arg

CallUpdateReviewDisplayStatus ==
    \E reviewId \in CurationReviewIds, display \in BOOLEAN :
        LET done == updateReviewDisplayStatus(reviewsTbl, reviewId, display)
        IN  /\ reviewsTbl' = IF done.threw THEN reviewsTbl ELSE done.value
            /\ ret' = [threw |-> done.threw]
            /\ pc' = "updateReviewDisplayStatus"
            /\ UNCHANGED dashboard
            /\ UNCHANGED <<arg, properties>>

CallDeleteReview ==
    \E reviewId \in CurationReviewIds :
        LET done == deleteReview(reviewsTbl, reviewId)
        IN  /\ reviewsTbl' = IF done.threw THEN reviewsTbl ELSE done.value
            /\ ret' = [threw |-> done.threw]
            /\ pc' = "deleteReview"
            /\ UNCHANGED dashboard
            /\ UNCHANGED <<arg, properties>>

IntegrityNext ==
    \/ RunSeed
    \/ CallSaveReviewsToDb
    \/ CallUpdateReviewDisplayStatus
    \/ CallDeleteReview

SpecIntegrity == IntegrityInit /\ [][IntegrityNext]_vars

\* C27: after any sequence of seed, saveReviewsToDb,
\* updateReviewDisplayStatus and deleteReview operations, a save or a seed
\* that fails part-way included, every stored review's propertyId is the id
\* of a stored property, and no two stored reviews have the same id.
C27_ReferentialIntegrity ==
    /\ \A k \in DOMAIN reviewsTbl : reviewsTbl[k].propertyId \in DOMAIN properties
    /\ \A k \in DOMAIN reviewsTbl : reviewsTbl[k].id = k
    /\ Cardinality({reviewsTbl[k].id : k \in DOMAIN reviewsTbl})
           = Cardinality(DOMAIN reviewsTbl)

\* a save that failed part-way and left a property without reviews beside
\* the property of the stored reviews
C27_Witness ==
    /\ pc = "saveReviewsToDb"
    /\ ret.threw
    /\ <<"1">> \in DOMAIN reviewsTbl
    /\ reviewsTbl[<<"1">>].propertyId = <<"a">>
    /\ DOMAIN properties = {<<"a">>, Unknown}
    /\ \A k \in DOMAIN reviewsTbl : reviewsTbl[k].propertyId = <<"a">>

(***************************************************************************)
(* The manager dashboard (app/dashboard/DashboardClient.tsx with the       *)
(* FilterBar, ReviewTable and ReviewRow components).  The variable         *)
(* dashboard holds the React state of one open page:                       *)
(*   reviews, filteredReviews, selectedProperty   DashboardClient          *)
(*   filters                                      FilterBar                *)
(*   updating   the ids of the mounted rows whose isUpdating is true       *)
(*   calls      the toggleReviewDisplay calls awaited by a handler, oldest *)
(*              first; row tells whether the ReviewRow that made the call  *)
(*              is still mounted.  Next.js runs the server actions of a    *)
(*              page one at a time, in the order of the calls.             *)
(* A handler, the render that follows it and the effects of that render    *)
(* are one step.  The date filter and the search box keep their initial    *)
(* values.                                                                 *)
(***************************************************************************)
MaxInFlight == 2

\* the value 'all' of a select box whose other values are property ids
AllProperties == <<"a", "l", "l">>

\* selectedProperty === null
NoProperty == <<"null">>

\* parseInt(ratingFilter), in tenths
MinRating(ratingFilter) ==
    CASE ratingFilter = "9" -> 90
      [] ratingFilter = "8" -> 80
      [] ratingFilter = "7" -> 70
      [] ratingFilter = "6" -> 60
      [] ratingFilter = "5" -> 50

\* FilterBar.tsx lines 31-79: the callback of reviews.filter
PassesFilters(review, filters) ==
    /\ ~(filters.property # AllProperties /\ review.propertyId # filters.property)
    /\ ~(filters.channel # "all" /\ review.channel # filters.channel)
    /\ ~(/\ filters.rating # "all"
         /\ \/ review.rating \in {Null, 0, NaN}
            \/ review.rating < MinRating(filters.rating))
    /\ ~(filters.type # "all" /\ review.reviewType # filters.type)

\* FilterBar.tsx lines 30-82: what the effect hands to onFilterChange
FilterBarFiltered(reviews, filters) ==
    SelectSeq(reviews, LAMBDA review : PassesFilters(review, filters))

IdsOf(reviews) == {reviews[i].id : i \in 1..Len(reviews)}

\* ReviewTable.tsx lines 294-300: the rows are keyed by review id, so a
\* review that leaves the list unmounts its row and the row's state
Render(d, filteredReviews) ==
    [d EXCEPT !.filteredReviews = filteredReviews,
              !.updating = @ \cap IdsOf(filteredReviews),
              !.calls = [i \in 1..Len(@) |->
                            [@[i] EXCEPT !.row = @ /\ d.calls[i].reviewId
                                                        \in IdsOf(filteredReviews)]]]

\* DashboardClient.tsx lines 31-39
handlePropertyClick(d, propertyId) ==
    IF d.selectedProperty = propertyId
    THEN Render([d EXCEPT !.selectedProperty = NoProperty], d.reviews)
    ELSE Render([d EXCEPT !.selectedProperty = propertyId],
                SelectSeq(d.reviews, LAMBDA r : r.propertyId = propertyId))

\* DashboardClient.tsx lines 138-142: the button 'Clear property filter'
clearPropertyFilter(d) ==
    Render([d EXCEPT !.selectedProperty = NoProperty], d.reviews)

\* FilterBar.tsx: a filter state changes, the effect of lines 30-82 runs
\* and DashboardClient.handleFilterChange (lines 27-29) stores its result
setFilters(d, filters) ==
    Render([d EXCEPT !.filters = filters], FilterBarFiltered(d.reviews, filters))

NoFilters ==
    [property |-> AllProperties, channel |-> "all", rating |-> "all",
     type |-> "all"]

\* ReviewRow.tsx lines 24-27: setIsUpdating(true), then the call is awaited
handleCheckboxChange(d, reviewId, checked) ==
    [d EXCEPT !.updating = @ \cup {reviewId},
              !.calls = Append(@, [reviewId |-> reviewId, display |-> checked,
                                   done |-> FALSE, success |-> FALSE,
                                   row |-> TRUE])]

SetDisplay(reviews, reviewId, display) ==
    [i \in 1..Len(reviews) |->
        IF reviews[i].id = reviewId
        THEN [reviews[i] EXCEPT !.displayOnWebsite = display]
        ELSE reviews[i]]

\* DashboardClient.tsx lines 42-59 after the await, then ReviewRow.tsx
\* lines 28-30; setReviews makes the FilterBar effect run again, and its
\* result replaces filteredReviews
handleToggleDisplay(d) ==
    LET call == Head(d.calls)
        rest == [d EXCEPT !.calls = Tail(@),
                          !.updating = IF call.row THEN @ \ {call.reviewId}
                                       ELSE @]
    IN  IF call.success
        THEN LET reviews == SetDisplay(d.reviews, call.reviewId, call.display)
             IN  Render([rest EXCEPT !.reviews = reviews],
                        FilterBarFiltered(reviews, d.filters))
        ELSE rest

\* lib/db.ts getAllReviews: newest first
getAllReviews(tbl) ==
    {[i \in 1..Len(order) |-> RowToReview(order[i])] :
        order \in NewestFirst({tbl[id] : id \in DOMAIN tbl})}

\* DashboardClient.tsx lines 23-25 and the initial states of the children
DashboardClient(initialReviews) ==
    [reviews |-> initialReviews,
     filteredReviews |-> initialReviews,
     selectedProperty |-> NoProperty,
     filters |-> NoFilters,
     updating |-> {},
     calls |-> <<>>]

(***************************************************************************)
(* Specification of one manager working on the dashboard.                  *)
(***************************************************************************)
\* <<id, listing name, rating, day>> of the reviews of the store
DashboardContents ==
    { <<1, (<<"a">>), 70, 10>>, <<2, (<<"a">>), 90, 11>>, <<3, (<<"B">>), 90, 12>> }

DashboardRawReview(c) ==
    [id |-> c[1], type |-> "guest-to-host", status |-> "published",
     rating |-> c[3], publicReview |-> <<"o", "k">>, reviewCategory |-> <<>>,
     submittedAt |-> [kind |-> "iso", day |-> c[4]], guestName |-> <<"a">>,
     listingName |-> c[2]]

DashboardFilters ==
    [property : {AllProperties, <<"b">>}, channel : {"all"},
     rating : {"all", "8"}, type : {"all"}]

\* app/dashboard/page.tsx: the page is opened on a store of saved reviews
DashboardInit ==
    /\ \E contents \in SeqsUpTo(DashboardContents, MaxReviews) :
           LET reviews == [i \in 1..Len(contents) |->
                   normalizeHostawayReview(DashboardRawReview(contents[i]), 50).value]
               db == saveReviewsToDb([props |-> [id \in {} |-> <<>>],
                                      tbl |-> [id \in {} |-> <<>>]], reviews)
           IN  /\ properties = db.props
               /\ reviewsTbl = db.tbl
               /\ \E initialReviews \in getAllReviews(db.tbl) :
                      dashboard = DashboardClient(initialReviews)
    /\ arg = <<>>
    /\ ret = <<>>
    /\ pc = "idle"

HandlePropertyClick ==
    \E propertyId \in DOMAIN properties :
        /\ dashboard' = handlePropertyClick(dashboard, propertyId)
        /\ pc' = "handlePropertyClick"
        /\ UNCHANGED <<arg, ret, properties, reviewsTbl>>

ClearPropertyFilter ==
    /\ dashboard.selectedProperty # NoProperty
    /\ dashboard' = clearPropertyFilter(dashboard)
    /\ pc' = "clearPropertyFilter"
    /\ UNCHANGED <<arg, ret, properties, reviewsTbl>>

\* a select box of the FilterBar gets another value, or 'Clear All'
SetFilters ==
    \E filters \in DashboardFilters :
        /\ filters # dashboard.filters
        /\ \/ filters = NoFilters
           \/ Cardinality({f \in DOMAIN filters :
                              filters[f] # dashboard.filters[f]}) = 1
        /\ dashboard' = setFilters(dashboard, filters)
        /\ pc' = "handleFilterChange"
        /\ UNCHANGED <<arg, ret, properties, reviewsTbl>>

\* the manager clicks the checkbox of a row that is shown and enabled
HandleCheckboxChange ==
    \E i \in 1..Len(dashboard.filteredReviews) :
        LET review == dashboard.filteredReviews[i]
        IN  /\ review.id \notin dashboard.updating
            /\ Len(dashboard.calls) < MaxInFlight
            /\ dashboard' = handleCheckboxChange(dashboard, review.id,
                                                 ~review.displayOnWebsite)
            /\ pc' = "handleCheckboxChange"
            /\ UNCHANGED <<arg, ret, properties, reviewsTbl>>

\* the server runs the oldest call; the database may be unreachable
RunToggleReviewDisplay ==
    /\ dashboard.calls # <<>>
    /\ ~Head(dashboard.calls).done
    /\ \E dbUp \in BOOLEAN :
           LET call == Head(dashboard.calls)
               done == toggleReviewDisplay(reviewsTbl, call.reviewId,
                                           call.display, dbUp)
           IN  /\ reviewsTbl' = done.tbl
               /\ dashboard' = [dashboard EXCEPT !.calls[1].done = TRUE,
                                   !.calls[1].success = done.result.success]
    /\ pc' = "toggleReviewDisplay"
    /\ UNCHANGED <<arg, ret, properties>>

\* the awaited call returns to handleToggleDisplay
HandleToggleDisplay ==
    /\ dashboard.calls # <<>>
    /\ Head(dashboard.calls).done
    /\ dashboard' = handleToggleDisplay(dashboard)
    /\ pc' = "handleToggleDisplay"
    /\ UNCHANGED <<arg, ret, properties, reviewsTbl>>

DashboardNext ==
    \/ HandlePropertyClick
    \/ ClearPropertyFilter
    \/ SetFilters
    \/ HandleCheckboxChange
    \/ RunToggleReviewDisplay
    \/ HandleToggleDisplay

SpecDashboard == DashboardInit /\ [][DashboardNext]_vars

\* the flag the dashboard shows for a review, in either list
LocalFlags(d, reviewId) ==
    {d.reviews[i].displayOnWebsite :
        i \in {j \in 1..Len(d.reviews) : d.reviews[j].id = reviewId}}
    \cup {d.filteredReviews[i].displayOnWebsite :
        i \in {j \in 1..Len(d.filteredReviews) :
                  d.filteredReviews[j].id = reviewId}}

\* C23: toggling a review's checkbox changes the flag the dashboard shows
\* at once, before the database write is confirmed, and a failed database
\* update puts the shown flag back to the stored value.
C23_OptimisticToggle ==
    [][/\ pc' = "handleCheckboxChange" =>
              LET call == dashboard'.calls[Len(dashboard'.calls)]
              IN  LocalFlags(dashboard', call.reviewId) = {call.display}
       /\ (pc' = "handleToggleDisplay" /\ ~Head(dashboard.calls).success) =>
              LET call == Head(dashboard.calls)
              IN  call.reviewId \in DOMAIN reviewsTbl' =>
                      LocalFlags(dashboard', call.reviewId)
                          = {reviewsTbl'[call.reviewId].displayOnWebsite}]_vars

\* C29: while a property card is selected, every review of filteredReviews
\* belongs to the selected property, whatever clicks, filter changes and
\* toggles came before.
C29_SelectionFiltersTheList ==
    (pc # "idle" /\ dashboard.selectedProperty # NoProperty) =>
        \A i \in 1..Len(dashboard.filteredReviews) :
            dashboard.filteredReviews[i].propertyId = dashboard.selectedProperty

\* C30: after every completed handleToggleDisplay the flags of reviews and
\* filteredReviews equal the stored ones; a row takes no second toggle
\* while its toggle is in flight; a disabled checkbox has a toggle in
\* flight that will enable it again.
C30_LocalStateFollowsTheStore ==
    pc # "idle" =>
        /\ pc = "handleToggleDisplay" =>
               \A id \in DOMAIN reviewsTbl :
                   LocalFlags(dashboard, id) = {reviewsTbl[id].displayOnWebsite}
        /\ \A i, j \in 1..Len(dashboard.calls) :
               i # j => dashboard.calls[i].reviewId # dashboard.calls[j].reviewId
        /\ \A id \in dashboard.updating :
               \E i \in 1..Len(dashboard.calls) :
                   dashboard.calls[i].reviewId = id /\ dashboard.calls[i].row

====
